---- MODULE Spec2Model ----
(***************************************************************************)
(* The update-scheduling core of nuqs-solid: the debounce controller       *)
(* (lib/queues/debounce.ts), the scoped timer (lib/timeout.ts), the        *)
(* throttled queue it feeds, and the composer's write path                 *)
(* (create-query-states.ts, `update`).                                     *)
(*                                                                         *)
(* JavaScript runs one callback at a time.  Every action below is one      *)
(* macrotask: the synchronous body of a handler (a composer write, a timer *)
(* callback, a direct controller call) followed by the microtasks it       *)
(* leaves behind (promise reactions), which the engine drains before the   *)
(* next macrotask starts.  Time is counted in ticks; a timer holds the     *)
(* ticks left until it is due.                                             *)
(***************************************************************************)
EXTENDS Integers, Sequences, FiniteSets, TLC

\* ---------------------------------------------------------------- bounds
MaxWrites == 2      \* composer writes in one behaviour
MaxPolicyWrites == 1  \* composer writes in one behaviour of the layered composer
MaxAbortWrites == 1   \* composer writes in one behaviour with abortAll
MaxTimers == 2      \* calls of timeout() in one behaviour of the timer alone
MaxDelay == 1       \* the longest finite debounce delay of a per-call option, in ticks
MaxParams == 2      \* entries of a parameter list given to applyChange
MaxValues == 2      \* strings of an array-valued query given to applyChange
MaxUpdates == 2     \* updateUrl calls in one behaviour of the testing adapter alone
MaxLiveWrites == 2  \* composer writes in one behaviour under fair timers
MaxPushes == 3      \* pushes in one behaviour of the debounce queue alone

\* ------------------------------------------------------------- constants
\* defaultRateLimit.timeMs, the throttle floor and the default delay (ticks)
DefaultTimeMs == 2
\* a delay for which Number.isFinite is false
Infinity == 1000

Keys == {"a", "b"}
Null == "null"
Undefined == "undefined"
\* state values of the fields and their serialized form
Values == {"v1", "v2"}
Serialize(v) == IF v = "v1" THEN "1" ELSE "2"
Queries == {Serialize(v) : v \in Values}

IsFinite(ms) == ms # Infinity

\* URLSearchParams restricted to the watched keys: key -> query or Null
EmptyParams == [k \in Keys |-> Null]
ParamsSet == [Keys -> Queries \cup {Null}]

\* an optional value: <<>> is undefined, <<v>> is v;  Coalesce is a ?? b
Coalesce(a, b) == IF a # <<>> THEN a ELSE b

\* UpdateQueuePushArgs without timeMs
\* (of the options, shallow is the one the composer looks at)
NoOptions == [shallow |-> FALSE]
NoUpdate == [key |-> "none", query |-> Undefined, options |-> NoOptions]
PushArgs(k, q, opts) == [key |-> k, query |-> q, options |-> opts]

\* ------------------------------------------------------------- promises
PendingPromise == [st |-> "pending", val |-> EmptyParams, err |-> 0]
ResolvedWith(v) == [st |-> "resolved", val |-> v, err |-> 0]
RejectedWith(e) == [st |-> "rejected", val |-> EmptyParams, err |-> e]

\* what is recorded about a promise: who created it and what was fed to it
NoWindow == [kind |-> "none", key |-> "none", query |-> Undefined, pushes |-> 0,
             fires |-> 0, fired |-> Undefined, flush |-> 0, updateUrls |-> 0,
             callers |-> 0, outer |-> 0]

VARIABLES
    queues,     \* DebounceController.queues: key -> queue object id, 0 if absent
    objs,       \* the DebouncedPromiseQueue objects ever constructed
    timers,     \* armed timers (setTimeout handles with their abort listener)
    ctl,        \* number of AbortControllers constructed
    tq,         \* the ThrottledQueue singleton
    promises,   \* every promise created, by id
    reactions,  \* then/finally reactions waiting on a promise
    url,        \* the adapter's search params
    signal,     \* createQueuedQueries signals: key -> last snapshot
    windows,    \* per promise: the pushes and flushes that concerned it
    last,       \* the handler that ran last: its inputs, its result, its trace
    bus,        \* every payload the synchronization bus has emitted, in order
    keyMap,     \* createQueryStates(keyMap, ...): field -> codec and options
    options,    \* createQueryStates(..., options): the hook-level options
    writes,     \* number of composer writes so far
    thrown,     \* the adapter's updateUrl has thrown
    hooks,      \* per composer: stateRef and queryRef
    written,    \* per key: the query written last, and the one queued last
    scoped,     \* timeout() on its own: handles, abort listeners, signals, calls
    isolation,  \* applyChange on its own: its arguments and its result
    testing,    \* NuqsTestingAdapter on its own: props, memory, onUrlUpdate calls
    debounced   \* a DebouncedPromiseQueue on its own, with any callback

\* the state of the queues and the composer, and the state of the units that
\* are exercised on their own
coreVars == <<queues, objs, timers, ctl, tq, promises, reactions, url, signal,
              windows, last, bus, keyMap, options, writes, thrown, hooks,
              written>>
unitVars == <<scoped, isolation, testing, debounced>>
vars == <<queues, objs, timers, ctl, tq, promises, reactions, url, signal,
          windows, last, bus, keyMap, options, writes, thrown, hooks, written,
          scoped, isolation, testing, debounced>>

\* The mutable heap a handler works on, as one record.
Heap == [queues |-> queues, objs |-> objs, timers |-> timers, ctl |-> ctl,
         tq |-> tq, promises |-> promises, reactions |-> reactions,
         url |-> url, signal |-> signal, windows |-> windows, hooks |-> hooks,
         trace |-> <<>>, ret |-> 0, threw |-> FALSE,
         returnedPromise |-> 0, maxDebounceTime |-> 0, debounceAborts |-> <<>>]

\* the trace of a handler: the calls it made, in order
Event(e, k, q, ms) ==
    [ev |-> e, key |-> k, query |-> q, ms |-> ms, state |-> Undefined, p |-> 0,
     params |-> EmptyParams, keys |-> {}, options |-> NoOptions]
Log(s, e) == [s EXCEPT !.trace = Append(@, e)]

\* ---------------------------------------------- Resolvable Promise Primitive
\* withResolvers(): a fresh pending promise; its id is Len(promises)
WithResolvers(s) ==
    [s EXCEPT !.promises = Append(@, PendingPromise),
              !.windows = Append(@, NoWindow)]

\* resolve / reject from outside: a no-op once the promise is settled
Settle(s, p, outcome) ==
    IF s.promises[p].st = "pending"
    THEN [s EXCEPT !.promises[p] = outcome]
    ELSE s

\* Promise.resolve(v): a fresh promise, already resolved
PromiseResolve(s, v) ==
    [s EXCEPT !.promises = Append(@, ResolvedWith(v)),
              !.windows = Append(@, NoWindow)]

\* ------------------------------------------------------------ Scoped Timer
\* timeout(callback, ms, signal): arms a timer and listens for the abort
Timeout(s, cb, ms, sig) ==
    [s EXCEPT !.timers = @ \cup {[cb |-> cb, rem |-> ms, sig |-> sig]}]

\* an abort that clears the timers of every debounce queue, as if the queues
\* shared one controller
AbortSignal_Shared(s, sig) ==
    [s EXCEPT !.timers = {t \in @ : t.sig # sig /\ t.cb.kind # "debounce"}]

\* controller.abort(): onAbort clears every timer armed on the signal
AbortSignal(s, sig) ==
    [s EXCEPT !.timers = {t \in @ : t.sig # sig}]

FlushNowCb == [kind |-> "flushNow", obj |-> 0, value |-> NoUpdate]
DebounceCb(o, value) == [kind |-> "debounce", obj |-> o, value |-> value]

\* ------------------------------------------------- Throttled Update Queue
\* ThrottledQueue.getQueuedQuery(key): the buffered query, or undefined
TQGetQueuedQuery(s, k) == s.tq.updateMap[k]

\* a queue that keeps the first value pushed for a key
TQPush_KeepFirst(s, update, ms) ==
    Log(IF s.tq.updateMap[update.key] = Undefined
        THEN [s EXCEPT !.tq.updateMap[update.key] = update.query]
        ELSE s,
        Event("throttle.push", update.key, update.query, ms))

\* ThrottledQueue.push(update): records / overwrites the pending update of
\* the key.  The floor is process-wide: the timeMs handed over is only traced.
TQPush(s, update, ms) ==
    Log([s EXCEPT !.tq.updateMap[update.key] = update.query],
        [Event("throttle.push", update.key, update.query, ms)
            EXCEPT !.options = update.options])

\* the pending updates merged into a copy of the current search params
ApplyPendingUpdates(params, updateMap) ==
    [k \in Keys |-> IF updateMap[k] = Undefined THEN params[k] ELSE updateMap[k]]

\* The commit: one updateUrl with the merged params, the pending map cleared
\* whatever the outcome, the shared promise settled.  ok = FALSE: updateUrl throws.
FlushNow(s, ok) ==
    LET p == s.tq.resolvers
        search == ApplyPendingUpdates(s.url, s.tq.updateMap)
        s1 == [s EXCEPT !.url = IF ok THEN search ELSE @,
                        !.tq.updateMap = [k \in Keys |-> Undefined],
                        !.tq.resolvers = 0,
                        !.tq.cooldown = DefaultTimeMs,
                        !.windows[p].updateUrls = @ + 1,
                        !.threw = ~ok]
        e == [Event("updateUrl", "none", Undefined, 0) EXCEPT
                 !.p = p, !.params = search,
                 !.keys = {k \in Keys : s.tq.updateMap[k] # Undefined}]
    IN  Settle(Log(s1, e), p,
               IF ok THEN ResolvedWith(search) ELSE RejectedWith(p))

\* a flush that calls updateUrl for every caller landing in an open window
TQFlush_PerCall(s, ok) ==
    IF s.tq.resolvers # 0
    THEN LET p == s.tq.resolvers
             search == ApplyPendingUpdates(s.url, s.tq.updateMap)
             e == [Event("updateUrl", "none", Undefined, 0) EXCEPT
                      !.p = p, !.params = search,
                      !.keys = {k \in Keys : s.tq.updateMap[k] # Undefined}]
         IN  Log(Log([s EXCEPT !.url = search, !.ret = p,
                               !.windows[p].updateUrls = @ + 1],
                     [Event("flush", "none", Undefined, 0) EXCEPT !.p = p]), e)
    ELSE LET s1 == WithResolvers(s)
             p == Len(s1.promises)
             s2 == Log([s1 EXCEPT !.tq.resolvers = p, !.ret = p,
                                  !.windows[p].kind = "flush"],
                       [Event("flush", "none", Undefined, 0) EXCEPT !.p = p])
         IN  IF s.tq.cooldown = 0
             THEN FlushNow(s2, ok)
             ELSE Timeout(s2, FlushNowCb, s.tq.cooldown, s.tq.controller)

\* ThrottledQueue.flush(adapter): attach to the scheduled commit if there is
\* one; else commit at once when the floor has elapsed, or arm the shared
\* timer for the rest of the floor.  Returns (in ret) the window's promise.
TQFlush(s, ok) ==
    IF s.tq.resolvers # 0
    THEN Log([s EXCEPT !.ret = s.tq.resolvers],
             [Event("flush", "none", Undefined, 0) EXCEPT !.p = s.tq.resolvers])
    ELSE LET s1 == WithResolvers(s)
             p == Len(s1.promises)
             s2 == Log([s1 EXCEPT !.tq.resolvers = p, !.ret = p,
                                  !.windows[p].kind = "flush"],
                       [Event("flush", "none", Undefined, 0) EXCEPT !.p = p])
         IN  IF s.tq.cooldown = 0
             THEN FlushNow(s2, ok)
             ELSE Timeout(s2, FlushNowCb, s.tq.cooldown, s.tq.controller)

\* ------------------------------------------------------ DebounceController
\* a lookup that tests the debounced query for truthiness
GetQueuedQuery_Truthy(s, k) ==
    LET o == s.queues[k]
        debouncedQueued == IF o = 0 THEN Undefined ELSE s.objs[o].queuedValue.query
    IN  IF debouncedQueued \notin {Undefined, Null}
        THEN debouncedQueued
        ELSE TQGetQueuedQuery(s, k)

\* a lookup that reads the debounce entry alone
GetQueuedQuery_DebounceOnly(s, k) ==
    LET o == s.queues[k]
    IN  IF o = 0 THEN Undefined ELSE s.objs[o].queuedValue.query

\* DebounceController.getQueuedQuery
GetQueuedQuery(s, k) ==
    LET o == s.queues[k]
        debouncedQueued == IF o = 0 THEN Undefined ELSE s.objs[o].queuedValue.query
    IN  IF debouncedQueued # Undefined
        THEN debouncedQueued
        ELSE TQGetQueuedQuery(s, k)

\* ------------------------------------------------- the composers' read path
\* the composers created on the page: all with the same keyMap and options
Composers == {1, 2}

\* the search params the adapter hands out when the composers are created
InitialUrl == [k \in Keys |-> IF k = "a" THEN "2" ELSE Null]

\* parser.parse, the inverse of Serialize
Parse(query) == IF query = "1" THEN "v1" ELSE "v2"

\* parseMap with cachedQuery and cachedState: a key whose query equals the
\* cached one keeps its cached state, any other key is parsed and cached anew
ParseMap(h, searchParams, queuedQueries) ==
    LET query == [k \in Keys |->
                    IF queuedQueries[k] = Undefined THEN searchParams[k]
                    ELSE queuedQueries[k]]
    IN  [stateRef |-> [k \in Keys |->
                         IF h.queryRef[k] = query[k] THEN h.stateRef[k]
                         ELSE IF query[k] = Null THEN Null ELSE Parse(query[k])],
         queryRef |-> query]

\* a composer after construction (line 117-176): nothing is queued yet
MountComposer ==
    [stateRef |-> [k \in Keys |->
                     IF InitialUrl[k] = Null THEN Null ELSE Parse(InitialUrl[k])],
     queryRef |-> InitialUrl]

\* the effect of line 178-198, re-run when a queued-query signal has changed
ParseEffect(s) ==
    [s EXCEPT !.hooks = [c \in Composers |-> ParseMap(@[c], InitialUrl, s.signal)]]

\* the cross-hook handler of a composer for one key (line 207-228)
SyncHandler(h, k, state, query) ==
    [h EXCEPT !.stateRef[k] =
         IF state # Null THEN state
         ELSE IF keyMap[k].defaultValue # <<>> THEN keyMap[k].defaultValue[1]
         ELSE Null,
              !.queryRef[k] = query]

\* applyDefaultValues(internalState(), defaultValues()) for one key
OutputState(h, k) ==
    IF h.stateRef[k] # Null THEN h.stateRef[k]
    ELSE IF keyMap[k].defaultValue # <<>> THEN keyMap[k].defaultValue[1]
    ELSE Null

\* queuedQuerySync.emit(key): the subscribed signal takes a snapshot of the
\* queued query, and the effect that reads the signal runs when it changed
EmitQueuedQuerySync(s, k) ==
    LET s1 == [s EXCEPT !.signal[k] = GetQueuedQuery(s, k)]
    IN  IF s1.signal[k] # s.signal[k] THEN ParseEffect(s1) ELSE s1

RECURSIVE EmitQueuedQuerySyncs(_, _, _)
EmitQueuedQuerySyncs(s, ks, order) ==
    IF order = <<>> THEN s
    ELSE EmitQueuedQuerySyncs(IF Head(order) \in ks
                              THEN EmitQueuedQuerySync(s, Head(order)) ELSE s,
                              ks, Tail(order))

\* an abort that forgets the queued value but leaves the timer running
DPQAbort_KeepTimer(s, o) ==
    [s EXCEPT !.objs[o].queuedValue = NoUpdate]

\* an abort that cancels the timer but keeps the queued value
DPQAbort_KeepValue(s, o) ==
    AbortSignal(s, s.objs[o].controller)

\* DebouncedPromiseQueue.abort
DPQAbort(s, o) ==
    [AbortSignal(s, s.objs[o].controller) EXCEPT !.objs[o].queuedValue = NoUpdate]

\* a push that queues the value and cancels the running timer but arms none
DPQPush_NoTimer(s, o, value, ms) ==
    LET s1 == [s EXCEPT !.objs[o].queuedValue = value]
        s2 == AbortSignal(s1, s1.objs[o].controller)
        s3 == [s2 EXCEPT !.ctl = @ + 1, !.objs[o].controller = s2.ctl + 1]
    IN  [s3 EXCEPT !.ret = s3.objs[o].resolvers]

\* DebouncedPromiseQueue.push without line 35: the running timer is not cancelled
DPQPush_NoAbort(s, o, value, ms) ==
    LET s1 == [s EXCEPT !.objs[o].queuedValue = value]
        s3 == [s1 EXCEPT !.ctl = @ + 1, !.objs[o].controller = s1.ctl + 1]
        s4 == Timeout(s3, DebounceCb(o, value), ms, s3.objs[o].controller)
    IN  [s4 EXCEPT !.ret = s4.objs[o].resolvers]

\* DebouncedPromiseQueue.push: queue the value, cancel the running timer, arm
\* a new one on a new controller, hand out the current promise
DPQPush(s, o, value, ms) ==
    LET s1 == [s EXCEPT !.objs[o].queuedValue = value]
        s2 == AbortSignal(s1, s1.objs[o].controller)
        s3 == [s2 EXCEPT !.ctl = @ + 1, !.objs[o].controller = s2.ctl + 1]
        s4 == Timeout(s3, DebounceCb(o, value), ms, s3.objs[o].controller)
    IN  [s4 EXCEPT !.ret = s4.objs[o].resolvers]

\* a callback that pushes and flushes but never cleans the entry up
DCCallback_NoCleanup(s, update, ok) ==
    TQFlush(TQPush(s, update, DefaultTimeMs), ok)

\* the callback the controller gives each queue: push to the throttled queue,
\* flush it, and clean up when that flush settles (the finally handler)
DCCallback(s, update, ok) ==
    LET s1 == TQFlush(TQPush(s, update, DefaultTimeMs), ok)
    IN  [s1 EXCEPT !.reactions = @ \cup
            {[kind |-> "finally", src |-> s1.ret, key |-> update.key, dst |-> 0]}]

\* a timer callback that keeps the resolvers it has just handed to the flush
DPQOnTick_KeepResolvers(s, t, ok) ==
    LET o == t.cb.obj
        outputResolvers == s.objs[o].resolvers
        s1 == DCCallback([s EXCEPT !.timers = @ \ {t}], t.cb.value, ok)
        callbackPromise == s1.ret
        s2 == [s1 EXCEPT !.objs[o].queuedValue = NoUpdate]
    IN  [s2 EXCEPT !.reactions = @ \cup
            {[kind |-> "then", src |-> callbackPromise, key |-> "none",
              dst |-> outputResolvers]}]

\* the timer callback of DebouncedPromiseQueue.push (the try branch; the
\* callback is an async function, so it never throws synchronously)
DPQOnTick(s, t, ok) ==
    LET o == t.cb.obj
        outputResolvers == s.objs[o].resolvers
        s1 == DCCallback([s EXCEPT !.timers = @ \ {t}], t.cb.value, ok)
        callbackPromise == s1.ret
        s2 == WithResolvers([s1 EXCEPT !.objs[o].queuedValue = NoUpdate])
        s3 == [s2 EXCEPT !.objs[o].resolvers = Len(s2.promises)]
    IN  [s3 EXCEPT !.reactions = @ \cup
            {[kind |-> "then", src |-> callbackPromise, key |-> "none",
              dst |-> outputResolvers]}]

\* new DebouncedPromiseQueue(callback), stored under the key
DCNewQueue(s, k) ==
    LET s1 == WithResolvers(s)
    IN  [s1 EXCEPT !.objs = Append(@, [queuedValue |-> NoUpdate,
                                       resolvers |-> Len(s1.promises),
                                       controller |-> s1.ctl + 1]),
                   !.ctl = @ + 1,
                   !.queues[k] = Len(s1.objs) + 1]

\* a push that queues the update whatever the delay is
DCPush_NoGuard(s, update, ms) ==
    LET s1 == IF s.queues[update.key] = 0 THEN DCNewQueue(s, update.key) ELSE s
        s2 == DPQPush(s1, s1.queues[update.key], update, ms)
    IN  Log(EmitQueuedQuerySync(s2, update.key),
            [Event("debounce.push", update.key, update.query, ms)
                EXCEPT !.p = s2.ret, !.options = update.options])

\* DebounceController.push
DCPush(s, update, ms) ==
    IF ~IsFinite(ms)
    THEN LET s1 == PromiseResolve(s, s.url)
         IN  Log([s1 EXCEPT !.ret = Len(s1.promises)],
                 [Event("debounce.push", update.key, update.query, ms)
                     EXCEPT !.p = Len(s1.promises), !.options = update.options])
    ELSE LET s1 == IF s.queues[update.key] = 0 THEN DCNewQueue(s, update.key) ELSE s
             s2 == DPQPush(s1, s1.queues[update.key], update, ms)
         IN  Log(EmitQueuedQuerySync(s2, update.key),
                 [Event("debounce.push", update.key, update.query, ms)
                     EXCEPT !.p = s2.ret, !.options = update.options])

\* an abort that hands out the passthrough but leaves the entry and its timer
DCAbort_KeepEntry(s, k) ==
    [s EXCEPT !.ret = s.queues[k]]

\* DebounceController.abort: ret is the queue object the returned function
\* closes over, 0 for the identity function
DCAbort(s, k) ==
    LET o == s.queues[k]
    IN  IF o = 0
        THEN [s EXCEPT !.ret = 0]
        ELSE [EmitQueuedQuerySync(DPQAbort([s EXCEPT !.queues[k] = 0], o), k)
                EXCEPT !.ret = o]

\* a passthrough that hands the promise back without wiring it
ApplyAbort_NoWiring(s, o, promise) ==
    [s EXCEPT !.ret = promise]

\* an abort function that wires the aborted queue's resolvers to nothing when
\* the promise it is given is still pending
ApplyAbort_DropPending(s, o, promise) ==
    IF o = 0 \/ s.promises[promise].st = "pending"
    THEN [s EXCEPT !.ret = promise]
    ELSE [s EXCEPT !.reactions = @ \cup
             {[kind |-> "then", src |-> promise, key |-> "none",
               dst |-> s.objs[o].resolvers]},
                   !.ret = promise]

\* the function abort returned, applied to a promise: wires the aborted
\* queue's resolvers to it and gives the promise back
ApplyAbort(s, o, promise) ==
    IF o = 0
    THEN [s EXCEPT !.ret = promise]
    ELSE [s EXCEPT !.reactions = @ \cup
             {[kind |-> "then", src |-> promise, key |-> "none",
               dst |-> s.objs[o].resolvers]},
                   !.ret = promise]

\* an abortAll loop that aborts each queue but never resolves its promise
RECURSIVE AbortEach_NoResolve(_, _)
AbortEach_NoResolve(s, ks) ==
    IF ks = {} THEN s
    ELSE LET k == CHOOSE x \in ks : TRUE
         IN  AbortEach_NoResolve(EmitQueuedQuerySync(DPQAbort(s, s.queues[k]), k),
                                 ks \ {k})

\* DebounceController.abortAll
RECURSIVE AbortEach(_, _)
AbortEach(s, ks) ==
    IF ks = {} THEN s
    ELSE LET k == CHOOSE x \in ks : TRUE
             o == s.queues[k]
             s1 == DPQAbort(s, o)
             s2 == Settle(s1, s1.objs[o].resolvers, ResolvedWith(EmptyParams))
         IN  AbortEach(EmitQueuedQuerySync(s2, k), ks \ {k})

\* an abortAll that hands out one more resolved promise on every call
DCAbortAll_FreshPromise(s) ==
    PromiseResolve([AbortEach(s, {k \in Keys : s.queues[k] # 0})
                       EXCEPT !.queues = [k \in Keys |-> 0]], EmptyParams)

DCAbortAll(s) ==
    [AbortEach(s, {k \in Keys : s.queues[k] # 0})
        EXCEPT !.queues = [k \in Keys |-> 0]]

\* --------------------------------------------------------------- microtasks
\* The reactions whose promise is settled run before the next macrotask:
\* the finally handler of the controller's callback (delete the entry if no
\* value is queued, emit), and the then-reactions that settle a promise the
\* way its source settled.
Drain(s) ==
    LET ready == {r \in s.reactions : s.promises[r.src].st # "pending"}
        cleaned == {r.key : r \in {x \in ready : x.kind = "finally"}}
        s1 == [s EXCEPT
                 !.queues = [k \in Keys |->
                     IF k \in cleaned /\ (s.queues[k] = 0 \/
                          s.objs[s.queues[k]].queuedValue = NoUpdate)
                     THEN 0 ELSE s.queues[k]],
                 !.promises = [i \in DOMAIN s.promises |->
                     IF s.promises[i].st = "pending" /\
                        (\E r \in ready : r.kind = "then" /\ r.dst = i)
                     THEN s.promises[(CHOOSE r \in ready :
                                        r.kind = "then" /\ r.dst = i).src]
                     ELSE s.promises[i]],
                 !.reactions = @ \ ready]
    IN  EmitQueuedQuerySyncs(s1, cleaned, <<"a", "b">>)

\* ------------------------------------------------------------ the composer
\* a rate-limit descriptor { method, timeMs }, each part optional
NoLimit == [method |-> <<>>, timeMs |-> <<>>]
Limit(m, ms) == [method |-> m, timeMs |-> ms]

\* line 304-308: does the write of this field go to the debounce controller?
IsDebounced(callLimit, hookLimit, parserLimit) ==
    \/ callLimit.method = <<"debounce">>
    \/ hookLimit.method = <<"debounce">>
    \/ parserLimit.method = <<"debounce">>

\* line 312-316: the delay of a debounced field
DebounceTimeMs(callLimit, hookLimit, parserLimit) ==
    Coalesce(callLimit.timeMs,
      Coalesce(hookLimit.timeMs,
        Coalesce(parserLimit.timeMs, <<DefaultTimeMs>>)))[1]

\* line 327-332: the timeMs handed to the throttled queue
ThrottleTimeMs(callOptions, parser, hook) ==
    Coalesce(callOptions.limitUrlUpdates.timeMs,
      Coalesce(parser.limitUrlUpdates.timeMs,
        Coalesce(hook.limitUrlUpdates.timeMs,
          Coalesce(callOptions.throttleMs,
            Coalesce(parser.throttleMs, <<hook.throttleMs>>)))))[1]

\* line 281-289: the value after clearOnDefault, and its query
ClearedValue(value, callOptions, parser, hook) ==
    IF /\ Coalesce(callOptions.clearOnDefault,
             Coalesce(parser.clearOnDefault, <<hook.clearOnDefault>>))[1]
       /\ value # Null
       /\ parser.defaultValue # <<>>
       /\ value = parser.defaultValue[1]
    THEN Null ELSE value

QueryOf(value) == IF value = Null THEN Null ELSE Serialize(value)

\* line 295-296: the options of the update handed to the queues
UpdateOptions(callOptions, parser, hook) ==
    [shallow |-> Coalesce(callOptions.shallow,
                   Coalesce(parser.shallow, <<hook.shallow>>))[1]]

\* console.warn(error(422)): a line on the console, nothing else
ConsoleWarn(s, k, query) == Log(s, Event("console.warn", k, query, 0))

\* emitter.emit(urlKey, { state, query })
EmitSync(s, k, state, query) ==
    LET s1 == Log(s, [Event("emit", k, query, 0) EXCEPT !.state = state])
    IN  IF k \notin DOMAIN keyMap THEN s1
        ELSE [s1 EXCEPT !.hooks = [c \in Composers |->
                                      SyncHandler(@[c], k, state, query)]]

\* what a debounced push is recorded as on the promise it was handed
NotePush(s, k, q) ==
    [s EXCEPT !.windows[s.ret] =
        [@ EXCEPT !.kind = IF @ = "none" THEN "debounce" ELSE @,
                  !.key = k, !.query = q, !.pushes = @ + 1]]

\* a loop body that pushes the update before it emits the payload
UpdateField_EmitLast(s, entry, callOptions) ==
    LET stateKey == entry.field
        parser == keyMap[stateKey]
        urlKey == stateKey
        value == ClearedValue(entry.value, callOptions, parser, options)
        query == QueryOf(value)
        updateArgs == PushArgs(urlKey, query, UpdateOptions(callOptions, parser, options))
    IN  IF stateKey \notin DOMAIN keyMap THEN s
        ELSE IF IsDebounced(callOptions.limitUrlUpdates, options.limitUrlUpdates,
                            parser.limitUrlUpdates)
        THEN LET timeMs == DebounceTimeMs(callOptions.limitUrlUpdates,
                               options.limitUrlUpdates, parser.limitUrlUpdates)
                 s0 == IF updateArgs.options.shallow = TRUE
                       THEN ConsoleWarn(s, urlKey, query) ELSE s
                 s2 == NotePush(DCPush(s0, updateArgs, timeMs), urlKey, query)
                 s3 == IF s2.maxDebounceTime < timeMs
                       THEN [s2 EXCEPT !.returnedPromise = s2.ret,
                                       !.maxDebounceTime = timeMs]
                       ELSE s2
             IN  EmitSync(s3, urlKey, value, query)
        ELSE LET timeMs == ThrottleTimeMs(callOptions, parser, options)
                 s2 == DCAbort(s, urlKey)
                 s3 == [s2 EXCEPT !.debounceAborts = Append(@, s2.ret)]
             IN  EmitSync(TQPush(s3, updateArgs, timeMs), urlKey, value, query)

\* a loop body that throws error(422) instead of warning: a shallow debounced
\* field is not pushed
UpdateField_ThrowOnShallow(s, entry, callOptions) ==
    LET stateKey == entry.field
        parser == keyMap[stateKey]
        urlKey == stateKey
        value == ClearedValue(entry.value, callOptions, parser, options)
        query == QueryOf(value)
        s1 == EmitSync(s, urlKey, value, query)
        updateArgs == PushArgs(urlKey, query, UpdateOptions(callOptions, parser, options))
    IN  IF stateKey \notin DOMAIN keyMap THEN s
        ELSE IF IsDebounced(callOptions.limitUrlUpdates, options.limitUrlUpdates,
                            parser.limitUrlUpdates)
        THEN LET timeMs == DebounceTimeMs(callOptions.limitUrlUpdates,
                               options.limitUrlUpdates, parser.limitUrlUpdates)
                 s2 == NotePush(DCPush(s1, updateArgs, timeMs), urlKey, query)
             IN  IF updateArgs.options.shallow = TRUE
                 THEN [s1 EXCEPT !.threw = TRUE]
                 ELSE IF s2.maxDebounceTime < timeMs
                 THEN [s2 EXCEPT !.returnedPromise = s2.ret,
                                 !.maxDebounceTime = timeMs]
                 ELSE s2
        ELSE LET timeMs == ThrottleTimeMs(callOptions, parser, options)
                 s2 == DCAbort(s1, urlKey)
                 s3 == [s2 EXCEPT !.debounceAborts = Append(@, s2.ret)]
             IN  TQPush(s3, updateArgs, timeMs)

\* one pass of the loop of `update` (line 277-336) over the entries of newState
UpdateField(s, entry, callOptions) ==
    LET stateKey == entry.field
        parser == keyMap[stateKey]
        urlKey == stateKey
        value == ClearedValue(entry.value, callOptions, parser, options)
        query == QueryOf(value)
        s1 == EmitSync(s, urlKey, value, query)
        updateArgs == PushArgs(urlKey, query, UpdateOptions(callOptions, parser, options))
    IN  IF stateKey \notin DOMAIN keyMap THEN s
        ELSE IF IsDebounced(callOptions.limitUrlUpdates, options.limitUrlUpdates,
                            parser.limitUrlUpdates)
        THEN LET timeMs == DebounceTimeMs(callOptions.limitUrlUpdates,
                               options.limitUrlUpdates, parser.limitUrlUpdates)
                 s0 == IF updateArgs.options.shallow = TRUE
                       THEN ConsoleWarn(s1, urlKey, query) ELSE s1
                 s2 == NotePush(DCPush(s0, updateArgs, timeMs), urlKey, query)
             IN  IF s2.maxDebounceTime < timeMs
                 THEN [s2 EXCEPT !.returnedPromise = s2.ret,
                                 !.maxDebounceTime = timeMs]
                 ELSE s2
        ELSE LET timeMs == ThrottleTimeMs(callOptions, parser, options)
                 s2 == DCAbort(s1, urlKey)
                 s3 == [s2 EXCEPT !.debounceAborts = Append(@, s2.ret)]
             IN  TQPush(s3, updateArgs, timeMs)

RECURSIVE UpdateLoop(_, _, _, _)
UpdateLoop(s, newState, i, callOptions) ==
    IF i > Len(newState) THEN s
    ELSE UpdateLoop(UpdateField(s, newState[i], callOptions), newState, i + 1,
                    callOptions)

\* line 338-341: the aborted debounce queues chained onto the flush promise
RECURSIVE ReduceAborts(_, _, _)
ReduceAborts(s, i, previous) ==
    IF i > Len(s.debounceAborts) THEN [s EXCEPT !.ret = previous]
    ELSE LET o == s.debounceAborts[i]
             s1 == ApplyAbort(s, o, previous)
             s2 == IF o = 0 THEN s1
                   ELSE [s1 EXCEPT !.windows[s.objs[o].resolvers].outer = previous]
         IN  ReduceAborts(s2, i + 1, s1.ret)

\* an update that flushes the throttled queue before it pushes the fields
update_FlushFirst(s, newState, callOptions, ok) ==
    LET s0 == TQFlush(s, ok)
        s1 == UpdateLoop(s0, newState, 1, callOptions)
        s3 == ReduceAborts(s1, 1, s0.ret)
        globalPromise == s3.ret
    IN  [s3 EXCEPT !.ret = IF s1.returnedPromise # 0
                           THEN s1.returnedPromise ELSE globalPromise]

\* `update` (line 258-343)
update(s, newState, callOptions, ok) ==
    LET s1 == UpdateLoop(s, newState, 1, callOptions)
        s2 == TQFlush(s1, ok)
        s3 == ReduceAborts(s2, 1, s2.ret)
        globalPromise == s3.ret
    IN  [s3 EXCEPT !.ret = IF s1.returnedPromise # 0
                           THEN s1.returnedPromise ELSE globalPromise]

\* ------------------------------------------------------------------ inputs
Delays == 0 .. MaxDelay
Debounce(ms) == Limit(<<"debounce">>, <<ms>>)
Throttle(ms) == Limit(<<"throttle">>, <<ms>>)

Parser(limit, default) ==
    [limitUrlUpdates |-> limit, defaultValue |-> default,
     clearOnDefault |-> <<>>, throttleMs |-> <<>>, shallow |-> <<>>]
HookOptions(limit) ==
    [limitUrlUpdates |-> limit, clearOnDefault |-> TRUE, throttleMs |-> DefaultTimeMs,
     shallow |-> TRUE]
CallOptions(limit) ==
    [limitUrlUpdates |-> limit, clearOnDefault |-> <<>>, throttleMs |-> <<>>,
     shallow |-> <<>>]

Entry(f, v) == [field |-> f, value |-> v]
\* the values a caller passes to `update`: field a set or cleared, field b set
NewStates ==
    {<<Entry("a", v)>> : v \in {"v1", Null}} \cup {<<Entry("b", "v2")>>}
\* the per-call options a caller passes
CallLimits == {NoLimit} \cup {Debounce(ms) : ms \in Delays}

NoTimer == [cb |-> FlushNowCb, rem |-> 0, sig |-> 0]
Last(op, newState, callOptions, t, s) ==
    [op |-> op, newState |-> newState, callOptions |-> callOptions, timer |-> t,
     ret |-> s.ret, trace |-> s.trace]

\* the events of the given kinds in a trace, in order
RECURSIVE SelectEvents(_, _)
SelectEvents(trace, evs) ==
    IF trace = <<>> THEN <<>>
    ELSE IF trace[1].ev \in evs
         THEN <<trace[1]>> \o SelectEvents(Tail(trace), evs)
         ELSE SelectEvents(Tail(trace), evs)

Payload(e) == [key |-> e.key, state |-> e.state, query |-> e.query]
Payloads(trace) ==
    LET es == SelectEvents(trace, {"emit"})
    IN  [i \in 1 .. Len(es) |-> Payload(es[i])]

\* how many times the handler called flush and was given promise p
FlushCalls(trace, p) ==
    Cardinality({i \in 1 .. Len(trace) : trace[i].ev = "flush" /\ trace[i].p = p})

\* ------------------------------------------------- the scoped timer alone
\* timeout(callback, ms, signal) with the runtime's timers and abort events
\* spelled out: setTimeout handles [id, rem, sig], abort listeners [sig, id],
\* the signals aborted so far, and how often each callback has been invoked.
NoTimers == [handles |-> {}, listeners |-> {}, aborted |-> {},
             calls |-> [i \in 1 .. MaxTimers |-> 0], armed |-> 0]

\* timeout(): line 10 arms the handle, line 15 registers onAbort
STimeout(th, ms, sig) ==
    LET id == th.armed + 1
    IN  [th EXCEPT !.handles = @ \cup {[id |-> id, rem |-> ms, sig |-> sig]},
                   !.listeners = @ \cup {[sig |-> sig, id |-> id]},
                   !.armed = id]

\* an onAbort that detaches itself without clearing the handle
SOnAbort_NoClear(th, l) ==
    [th EXCEPT !.listeners = @ \ {l}]

\* onAbort (line 11-14): clears the handle and detaches itself
SOnAbort(th, l) ==
    [th EXCEPT !.handles = {h \in @ : h.id # l.id},
               !.listeners = @ \ {l}]

RECURSIVE SDispatch(_, _)
SDispatch(th, ls) ==
    IF ls = {} THEN th
    ELSE LET l == CHOOSE x \in ls : TRUE
         IN  SDispatch(SOnAbort(th, l), ls \ {l})

\* controller.abort(): the abort event is dispatched once per signal, to the
\* listeners registered at that moment
SAbort(th, sig) ==
    IF sig \in th.aborted THEN th
    ELSE SDispatch([th EXCEPT !.aborted = @ \cup {sig}],
                   {l \in th.listeners : l.sig = sig})

\* onTick (line 6-9): the runtime has released the handle; the callback is
\* invoked; the listener is detached after the callback has returned
SOnTick(th, h, throws) ==
    LET th1 == [th EXCEPT !.handles = @ \ {h}, !.calls[h.id] = @ + 1]
    IN  IF throws THEN th1
        ELSE [th1 EXCEPT !.listeners = @ \ {[sig |-> h.sig, id |-> h.id]}]

\* ----------------------------------------------------------------- actions
\* --------------------------------------------- the key-isolation filter alone
\* A parameter list is a sequence of entries [key, value], as URLSearchParams
\* keeps them. A query value is null, one string, or an array of strings.
QNull == [kind |-> "null", value |-> Null]
QString(v) == [kind |-> "string", value |-> v]
QArray(vs) == [kind |-> "array", value |-> vs]

\* the strings a query value stands for, in order
QueryValues(q) ==
    IF q.kind = "null" THEN <<>>
    ELSE IF q.kind = "string" THEN <<q.value>>
    ELSE q.value

\* one entry per value, all under the same key
EntriesOf(k, vs) == [i \in 1 .. Len(vs) |-> [key |-> k, value |-> vs[i]]]

\* the list from position i on: entries of other keys stay, the first entry
\* of a changed key is replaced by the key's new entries, its later entries go
RECURSIVE ReplaceFrom(_, _, _, _, _)
ReplaceFrom(fullParams, i, changed, newQuery, seen) ==
    IF i > Len(fullParams) THEN <<>>
    ELSE LET e == fullParams[i]
         IN  IF e.key \notin changed
             THEN <<e>> \o ReplaceFrom(fullParams, i + 1, changed, newQuery, seen)
             ELSE IF e.key \in seen
             THEN ReplaceFrom(fullParams, i + 1, changed, newQuery, seen)
             ELSE EntriesOf(e.key, QueryValues(newQuery[e.key])) \o
                  ReplaceFrom(fullParams, i + 1, changed, newQuery, seen \cup {e.key})

\* the new entries of the changed keys the list did not hold, in the order
\* the keys were given
RECURSIVE AppendNew(_, _, _, _)
AppendNew(fullParams, changedUrlKeys, j, newQuery) ==
    IF j > Len(changedUrlKeys) THEN <<>>
    ELSE LET k == changedUrlKeys[j]
             held == \E i \in DOMAIN fullParams : fullParams[i].key = k
         IN  (IF held THEN <<>> ELSE EntriesOf(k, QueryValues(newQuery[k]))) \o
             AppendNew(fullParams, changedUrlKeys, j + 1, newQuery)

\* a filter that writes each changed key with a single set call, which keeps
\* one entry per key: the last value of the new query
applyChange_NaiveSet(fullParams, changedUrlKeys, newQuery) ==
    LET changed == {changedUrlKeys[j] : j \in DOMAIN changedUrlKeys}
        lastOf(q) == LET vs == QueryValues(q)
                     IN  IF vs = <<>> THEN QNull ELSE QString(vs[Len(vs)])
        naive == [k \in changed |-> lastOf(newQuery[k])]
    IN  ReplaceFrom(fullParams, 1, changed, naive, {}) \o
        AppendNew(fullParams, changedUrlKeys, 1, naive)

\* applyChange(fullParams, changedUrlKeys, newQuery)
applyChange(fullParams, changedUrlKeys, newQuery) ==
    LET changed == {changedUrlKeys[j] : j \in DOMAIN changedUrlKeys}
    IN  ReplaceFrom(fullParams, 1, changed, newQuery, {}) \o
        AppendNew(fullParams, changedUrlKeys, 1, newQuery)

NoChange == [fullParams |-> <<>>, changedUrlKeys |-> <<>>, newQuery |-> <<>>,
             result |-> <<>>, applied |-> FALSE]

\* ------------------------------------------------ the testing adapter alone
\* a string of a query is a sequence of tokens: the mark "?" or a key=value pair
QuestionMark == [key |-> "?", value |-> "?"]

\* renderQueryString(search): "?" and the key=value pairs of the params that
\* are set, in key order; the empty string when none is
RenderQueryString(params) ==
    LET pairs == (IF params["a"] # Null THEN <<[key |-> "a", value |-> params["a"]]>> ELSE <<>>)
                 \o (IF params["b"] # Null THEN <<[key |-> "b", value |-> params["b"]]>> ELSE <<>>)
    IN  IF pairs = <<>> THEN <<>> ELSE <<QuestionMark>> \o pairs

\* new URLSearchParams(string): a leading "?" is dropped, each pair is read
ParseSearch(string) ==
    LET pairs == IF string # <<>> /\ string[1] = QuestionMark THEN Tail(string) ELSE string
    IN  [k \in Keys |->
            IF \E i \in DOMAIN pairs : pairs[i].key = k
            THEN pairs[CHOOSE i \in DOMAIN pairs : pairs[i].key = k].value
            ELSE Null]

\* renderInitialSearchParams(props.searchParams) of a URLSearchParams:
\* toString(), which has no leading "?"
RenderInitialSearchParams(params) ==
    LET string == RenderQueryString(params)
    IN  IF string = <<>> THEN <<>> ELSE Tail(string)

NoAdapter == [hasMemory |-> FALSE, initial |-> EmptyParams,
              searchParams |-> EmptyParams, locationSearchRef |-> <<>>,
              onUrlUpdate |-> <<>>]

\* the component body and its effect, run once at mount
MountAdapter(hasMemory, params) ==
    [hasMemory |-> hasMemory, initial |-> params,
     searchParams |-> ParseSearch(RenderInitialSearchParams(params)),
     locationSearchRef |-> RenderInitialSearchParams(params),
     onUrlUpdate |-> <<>>]

\* getSearchParamsSnapshot()
GetSearchParamsSnapshot(ad) == ParseSearch(ad.locationSearchRef)

\* an updateUrl that stores the params whether the adapter has memory or not
AdapterUpdateUrl_AlwaysStore(ad, search) ==
    LET queryString == RenderQueryString(search)
        urlSearchParams == search
    IN  [ad EXCEPT !.searchParams = urlSearchParams,
                   !.locationSearchRef = queryString,
                   !.onUrlUpdate = Append(@, [searchParams |-> urlSearchParams,
                                              queryString |-> queryString])]

\* updateUrl(search, options) of the testing adapter
AdapterUpdateUrl(ad, search) ==
    LET queryString == RenderQueryString(search)
        urlSearchParams == search
        ad1 == IF ad.hasMemory
               THEN [ad EXCEPT !.searchParams = urlSearchParams,
                               !.locationSearchRef = queryString]
               ELSE ad
    IN  [ad1 EXCEPT !.onUrlUpdate = Append(@, [searchParams |-> urlSearchParams,
                                               queryString |-> queryString])]

\* what the calls of a handler say about each key: the query of the payload
\* of a write, the query handed to a queue (a push with a non-finite delay
\* queues nothing), and whether updateUrl has been called with it since
RECURSIVE NoteWrites(_, _)
NoteWrites(w, trace) ==
    IF trace = <<>> THEN w
    ELSE LET e == Head(trace)
             w1 == IF e.ev = "updateUrl"
                   THEN [k \in Keys |->
                           IF k \notin e.keys THEN w[k]
                           ELSE [w[k] EXCEPT
                                   !.committed = @ \/ e.params[k] = w[k].query,
                                   !.flushed = @ \/ e.params[k] = w[k].queued]]
                   ELSE IF e.key \notin Keys THEN w
                   ELSE IF e.ev = "emit"
                   THEN [w EXCEPT ![e.key].query = e.query,
                                  ![e.key].committed = FALSE]
                   ELSE IF e.ev = "throttle.push" \/
                           (e.ev = "debounce.push" /\ IsFinite(e.ms))
                   THEN [w EXCEPT ![e.key].queued = e.query,
                                  ![e.key].flushed = FALSE]
                   ELSE w
         IN  NoteWrites(w1, Tail(trace))

\* --------------------------------------- DebouncedPromiseQueue on its own
\* new DebouncedPromiseQueue(callback): the fields of the queue, every promise
\* made by withResolvers, the value its armed timer carries, the calls of the
\* callback whose promise has not settled (by the resolvers they feed), the
\* promises push has returned, and the resolvers of the windows that fired
NoQueue == [queuedValue |-> Undefined, resolvers |-> 1, promises |-> <<"pending">>,
            timer |-> Undefined, calls |-> {}, returned |-> <<>>, fired |-> {}]

\* resolve / reject of a resolvers triple: a no-op once settled
QueueSettle(q, p, how) ==
    [q EXCEPT !.promises[p] = IF @ = "pending" THEN how ELSE @]

\* abort (line 28-31)
QueueAbort(q) ==
    [q EXCEPT !.timer = Undefined, !.queuedValue = Undefined]

\* push (line 33-58, without the timer callback)
QueuePush(q, value) ==
    [q EXCEPT !.queuedValue = value, !.timer = value,
              !.returned = Append(@, q.resolvers)]

\* the timer callback (line 38-53): the try branch when the callback returns
\* a promise, the catch branch when it throws
QueueOnTick(q, throws) ==
    LET outputResolvers == q.resolvers
        q1 == [q EXCEPT !.timer = Undefined, !.queuedValue = Undefined,
                        !.fired = @ \cup {outputResolvers}]
    IN  IF throws
        THEN QueueSettle(q1, outputResolvers, "rejected")
        ELSE [q1 EXCEPT !.promises = Append(@, "pending"),
                        !.resolvers = Len(q.promises) + 1,
                        !.calls = @ \cup {outputResolvers}]

\* callbackPromise settles: then / catch settle the window's resolvers
QueueOnSettled(q, outputResolvers, how) ==
    QueueSettle([q EXCEPT !.calls = @ \ {outputResolvers}], outputResolvers, how)

Commit(s) ==
    /\ queues' = s.queues
    /\ objs' = s.objs
    /\ timers' = s.timers
    /\ ctl' = s.ctl
    /\ tq' = s.tq
    /\ promises' = s.promises
    /\ reactions' = s.reactions
    /\ url' = s.url
    /\ signal' = s.signal
    /\ hooks' = s.hooks
    /\ written' = NoteWrites(written, s.trace)
    /\ windows' = [p \in DOMAIN s.windows |->
                      [s.windows[p] EXCEPT !.callers = @ + FlushCalls(s.trace, p)]]
    /\ bus' = bus \o Payloads(s.trace)
    /\ thrown' = (thrown \/ s.threw)
    /\ UNCHANGED <<keyMap, options>>
    /\ UNCHANGED unitVars

\* a composer's setter is called
Write(newState, callOptions, ok) ==
    /\ LET s == Drain(update(Heap, newState, callOptions, ok))
       IN  /\ s.threw = ~ok
           /\ Commit(s)
           /\ last' = Last("write", newState, callOptions, NoTimer, s)
    /\ writes' = writes + 1

\* a debounce timer is due and its callback runs
DebounceTimerFires(t, ok) ==
    /\ t \in timers /\ t.rem = 0 /\ t.cb.kind = "debounce"
    /\ LET outputResolvers == objs[t.cb.obj].resolvers
           s1 == DPQOnTick(Heap, t, ok)
           s2 == [s1 EXCEPT !.windows[outputResolvers] =
                     [@ EXCEPT !.fires = @ + 1, !.fired = t.cb.value.query,
                               !.flush = s1.ret]]
           s == Drain(s2)
       IN  /\ s.threw = ~ok
           /\ Commit(s)
           /\ last' = Last("debounceTick", <<>>, CallOptions(NoLimit), t, s)
    /\ UNCHANGED writes

\* the throttled queue's timer is due: the scheduled commit runs
ThrottleTimerFires(t, ok) ==
    /\ t \in timers /\ t.rem = 0 /\ t.cb.kind = "flushNow"
    /\ LET s == Drain(FlushNow([Heap EXCEPT !.timers = @ \ {t}], ok))
       IN  /\ s.threw = ~ok
           /\ Commit(s)
           /\ last' = Last("flushNow", <<>>, CallOptions(NoLimit), t, s)
    /\ UNCHANGED writes

\* debounceController.abortAll() is called: while the controller holds an
\* entry, or a second time in a row (last.ret counts the calls in a row)
AbortAll ==
    /\ (\E k \in Keys : queues[k] # 0) \/ (last.op = "abortAll" /\ last.ret = 1)
    /\ LET s == Drain(DCAbortAll(Heap))
           inRow == IF last.op = "abortAll" THEN 2 ELSE 1
       IN  /\ Commit(s)
           /\ last' = Last("abortAll", <<>>, CallOptions(NoLimit), NoTimer,
                           [s EXCEPT !.ret = inRow])
    /\ UNCHANGED writes

\* one tick of time passes; no due timer is kept waiting
Tick ==
    /\ timers # {} \/ tq.cooldown > 0
    /\ \A t \in timers : t.rem > 0
    /\ timers' = {[t EXCEPT !.rem = @ - 1] : t \in timers}
    /\ tq' = [tq EXCEPT !.cooldown = IF @ > 0 THEN @ - 1 ELSE 0]
    /\ last' = Last("tick", <<>>, CallOptions(NoLimit), NoTimer, [ret |-> 0, trace |-> <<>>])
    /\ UNCHANGED <<queues, objs, ctl, promises, reactions, url, signal, windows, bus,
                   keyMap, options, writes, thrown, hooks, written>>
    /\ UNCHANGED unitVars

\* what updateUrl may do now: return (TRUE), or throw (FALSE), once at most
Outcomes == IF thrown THEN {TRUE} ELSE BOOLEAN

\* The first call may come before or after the floor has elapsed since the
\* time origin (the last flush timestamp starts at the origin).
InitQueues ==
    /\ queues = [k \in Keys |-> 0]
    /\ objs = <<>>
    /\ timers = {}
    /\ ctl = 1
    /\ \E c \in {0, DefaultTimeMs} :
          tq = [updateMap |-> [k \in Keys |-> Undefined], resolvers |-> 0,
                controller |-> 1, cooldown |-> c]
    /\ promises = <<>>
    /\ reactions = {}
    /\ url = InitialUrl
    /\ signal = [k \in Keys |-> Undefined]
    /\ hooks = [c \in Composers |-> MountComposer]
    /\ written = [k \in Keys |-> [query |-> Undefined, queued |-> Undefined,
                                   committed |-> FALSE, flushed |-> FALSE]]
    /\ windows = <<>>
    /\ bus = <<>>
    /\ last = Last("init", <<>>, CallOptions(NoLimit), NoTimer, [ret |-> 0, trace |-> <<>>])
    /\ writes = 0 /\ thrown = FALSE

InitHeap ==
    /\ InitQueues
    /\ scoped = NoTimers
    /\ isolation = NoChange
    /\ testing = NoAdapter
    /\ debounced = NoQueue

\* field "a" has no default; field "b" defaults to v1
Init ==
    /\ InitHeap
    /\ keyMap = [f \in Keys |-> Parser(NoLimit, IF f = "b" THEN <<"v1">> ELSE <<>>)]
    /\ options = HookOptions(NoLimit)

WriteCall ==
    \E ns \in NewStates, lim \in CallLimits, ok \in Outcomes :
        writes < MaxWrites /\ Write(ns, CallOptions(lim), ok)

DebounceExpiry == \E t \in timers, ok \in Outcomes : DebounceTimerFires(t, ok)

ThrottleExpiry == \E t \in timers, ok \in Outcomes : ThrottleTimerFires(t, ok)

Next ==
    \/ WriteCall
    \/ DebounceExpiry
    \/ ThrottleExpiry
    \/ Tick

Spec == Init /\ [][Next]_vars

\* the same, with abortAll called from outside at any time
NextAll == Next \/ AbortAll

SpecAll == Init /\ [][NextAll]_vars

\* ===================================================================
\* The composer under every layering of rate limits: each field's parser and
\* the hook carry a limit of their own, and a write names up to two fields.
FieldLimits == {NoLimit} \cup {Debounce(ms) : ms \in Delays}
HookLimits == {NoLimit, Debounce(MaxDelay)}
PolicyCallLimits == {NoLimit, Throttle(DefaultTimeMs)} \cup {Debounce(ms) : ms \in Delays}
PolicyStates ==
    {<<Entry("a", "v1")>>, <<Entry("a", "v1"), Entry("b", "v2")>>,
     <<Entry("b", "v2"), Entry("a", Null)>>}

InitPolicy ==
    /\ InitHeap
    /\ keyMap \in [Keys -> {Parser(l, <<>>) : l \in FieldLimits}]
    /\ \E l \in HookLimits : options = HookOptions(l)

PolicyWrite ==
    \E ns \in PolicyStates, lim \in PolicyCallLimits, ok \in Outcomes :
        writes < MaxPolicyWrites /\ Write(ns, CallOptions(lim), ok)

NextPolicy == PolicyWrite \/ DebounceExpiry \/ ThrottleExpiry \/ Tick
SpecPolicy == InitPolicy /\ [][NextPolicy]_vars

\* The composer with a debounced field b, a throttled field a, and callers
\* that also name a field z for which no parser is declared.
BusStates ==
    {<<Entry("b", "v2"), Entry("a", "v1")>>, <<Entry("a", Null), Entry("z", "v1")>>,
     <<Entry("z", "v2"), Entry("b", "v1")>>}

InitBus ==
    /\ InitHeap
    /\ keyMap = [f \in Keys |->
                    Parser(IF f = "b" THEN Debounce(MaxDelay) ELSE NoLimit,
                           IF f = "b" THEN <<"v1">> ELSE <<>>)]
    /\ options = HookOptions(NoLimit)

BusWrite ==
    \E ns \in BusStates, ok \in Outcomes :
        writes < MaxWrites /\ Write(ns, CallOptions(NoLimit), ok)

NextBus == BusWrite \/ DebounceExpiry \/ ThrottleExpiry \/ Tick
SpecBus == InitBus /\ [][NextBus]_vars

\* The composer writing two keys at once and then one of them again: both
\* keys get a debounce entry, and one is restarted or aborted while the other
\* waits.
KeyStates == {<<Entry("a", "v1"), Entry("b", "v2")>>, <<Entry("a", Null)>>}
KeyLimits == {NoLimit, Debounce(MaxDelay)}

KeyWrite ==
    \E ns \in KeyStates, lim \in KeyLimits, ok \in Outcomes :
        writes < MaxWrites /\ Write(ns, CallOptions(lim), ok)

NextKeys == KeyWrite \/ DebounceExpiry \/ ThrottleExpiry \/ Tick
SpecKeys == Init /\ [][NextKeys]_vars

\* ===================================================================
\* abortAll around one composer call: any single-field or two-field write
\* under any per-call limit, the expiries, and abortAll at any time
AbortWrite ==
    \E ns \in NewStates \cup KeyStates, lim \in CallLimits, ok \in Outcomes :
        writes < MaxAbortWrites /\ Write(ns, CallOptions(lim), ok)

NextAbort ==
    \/ AbortWrite
    \/ DebounceExpiry
    \/ ThrottleExpiry
    \/ AbortAll
    \/ Tick

SpecAbort == Init /\ [][NextAbort]_vars

\* ===================================================================
\* The composer with per-call debounce delays that are finite or not
ImmediateLimits == {Debounce(MaxDelay), Debounce(Infinity)}

ImmediateWrite ==
    \E ns \in NewStates, lim \in ImmediateLimits, ok \in Outcomes :
        writes < MaxWrites /\ Write(ns, CallOptions(lim), ok)

NextImmediate ==
    \/ ImmediateWrite
    \/ DebounceExpiry
    \/ ThrottleExpiry
    \/ Tick

SpecImmediate == Init /\ [][NextImmediate]_vars

\* ===================================================================
\* The composer with callers that debounce every write and leave shallow to
\* the hook's default (true) or pass shallow: false
ShallowOptions == {<<>>, <<FALSE>>}

ShallowWrite ==
    \E ns \in NewStates, sh \in ShallowOptions, ok \in Outcomes :
        /\ writes < MaxWrites
        /\ Write(ns, [CallOptions(Debounce(MaxDelay)) EXCEPT !.shallow = sh], ok)

NextShallow ==
    \/ ShallowWrite
    \/ DebounceExpiry
    \/ ThrottleExpiry
    \/ Tick

SpecShallow == Init /\ [][NextShallow]_vars

\* ===================================================================
\* The testing adapter on its own: mounted with or without memory on any
\* initial search params, then updateUrl is called with any params
InitAdapter ==
    /\ InitQueues
    /\ scoped = NoTimers
    /\ isolation = NoChange
    /\ debounced = NoQueue
    /\ keyMap = [f \in Keys |-> Parser(NoLimit, <<>>)]
    /\ options = HookOptions(NoLimit)
    /\ \E hasMemory \in BOOLEAN, params \in ParamsSet :
          testing = MountAdapter(hasMemory, params)

UpdateUrl ==
    \E search \in ParamsSet :
        /\ Len(testing.onUrlUpdate) < MaxUpdates
        /\ testing' = AdapterUpdateUrl(testing, search)
        /\ UNCHANGED <<coreVars, scoped, isolation, debounced>>

NextAdapter == UpdateUrl
SpecAdapter == InitAdapter /\ [][NextAdapter]_vars

\* ===================================================================
\* The key-isolation filter on its own: every parameter list of up to
\* MaxParams entries over two keys and two values, and the list m=1&n=2;
\* every choice of changed keys; every new query of up to MaxValues strings.
RECURSIVE SeqsUpTo(_, _)
SeqsUpTo(S, n) ==
    IF n = 0 THEN {<<>>}
    ELSE LET shorter == SeqsUpTo(S, n - 1)
         IN  shorter \cup {Append(q, x) : q \in shorter, x \in S}

ParamEntries == {[key |-> k, value |-> v] : k \in Keys, v \in Queries}
FullParams ==
    SeqsUpTo(ParamEntries, MaxParams) \cup
        {<<[key |-> "m", value |-> "1"], [key |-> "n", value |-> "2"]>>}
KeysOf(fullParams) == {fullParams[i].key : i \in DOMAIN fullParams}
ChangedKeys(fullParams) ==
    LET ks == IF "m" \in KeysOf(fullParams) THEN {"m", "n"} ELSE Keys
    IN  {q \in SeqsUpTo(ks, 2) : Len(q) = Cardinality({q[j] : j \in DOMAIN q})}
NewQueries ==
    {QNull} \cup {QString(v) : v \in {"x", "y"}}
            \cup {QArray(vs) : vs \in SeqsUpTo({"x", "y"}, MaxValues)}

InitIsolation ==
    /\ InitQueues
    /\ scoped = NoTimers
    /\ testing = NoAdapter
    /\ debounced = NoQueue
    /\ keyMap = [f \in Keys |-> Parser(NoLimit, <<>>)]
    /\ options = HookOptions(NoLimit)
    /\ \E fullParams \in FullParams :
       \E changedUrlKeys \in ChangedKeys(fullParams) :
       \E newQuery \in [{changedUrlKeys[j] : j \in DOMAIN changedUrlKeys} -> NewQueries] :
          isolation = [NoChange EXCEPT !.fullParams = fullParams,
                                       !.changedUrlKeys = changedUrlKeys,
                                       !.newQuery = newQuery]

ApplyChange ==
    /\ ~isolation.applied
    /\ isolation' = [isolation EXCEPT
                        !.result = applyChange(isolation.fullParams,
                                               isolation.changedUrlKeys,
                                               isolation.newQuery),
                        !.applied = TRUE]
    /\ UNCHANGED <<coreVars, scoped, testing, debounced>>

NextIsolation == ApplyChange
SpecIsolation == InitIsolation /\ [][NextIsolation]_vars

\* The scoped timer on its own: timers are armed on signals that are not yet
\* aborted (every caller passes the signal of a controller it has just made),
\* signals are aborted at any moment, and a callback returns or throws.
Signals == 1 .. MaxTimers

ArmTimer ==
    \E ms \in Delays, sig \in Signals :
        /\ scoped.armed < MaxTimers /\ sig \notin scoped.aborted
        /\ scoped' = STimeout(scoped, ms, sig)
        /\ UNCHANGED <<coreVars, isolation, testing, debounced>>

AbortTimer ==
    \E sig \in Signals :
        /\ scoped' = SAbort(scoped, sig)
        /\ UNCHANGED <<coreVars, isolation, testing, debounced>>

TimerExpiry ==
    \E h \in scoped.handles, throws \in BOOLEAN :
        /\ h.rem = 0
        /\ scoped' = SOnTick(scoped, h, throws)
        /\ UNCHANGED <<coreVars, isolation, testing, debounced>>

TimerTick ==
    /\ scoped.handles # {}
    /\ \A h \in scoped.handles : h.rem > 0
    /\ scoped' = [scoped EXCEPT !.handles = {[h EXCEPT !.rem = @ - 1] : h \in @}]
    /\ UNCHANGED <<coreVars, isolation, testing, debounced>>

NextTimer == ArmTimer \/ AbortTimer \/ TimerExpiry \/ TimerTick
SpecTimer == Init /\ [][NextTimer]_vars

\* The debounce queue on its own: values are pushed, the queue is aborted, the
\* timer fires, and the callback returns a promise (which resolves or rejects
\* later) or throws.
QueueValues == {"x", "y"}

PushValue ==
    \E value \in QueueValues :
        /\ Len(debounced.returned) < MaxPushes
        /\ debounced' = QueuePush(debounced, value)
        /\ UNCHANGED <<coreVars, scoped, isolation, testing>>

AbortQueue ==
    /\ debounced.timer # Undefined
    /\ debounced' = QueueAbort(debounced)
    /\ UNCHANGED <<coreVars, scoped, isolation, testing>>

QueueExpiry ==
    \E throws \in BOOLEAN :
        /\ debounced.timer # Undefined
        /\ debounced' = QueueOnTick(debounced, throws)
        /\ UNCHANGED <<coreVars, scoped, isolation, testing>>

CallbackSettles ==
    \E outputResolvers \in debounced.calls, how \in {"resolved", "rejected"} :
        /\ debounced' = QueueOnSettled(debounced, outputResolvers, how)
        /\ UNCHANGED <<coreVars, scoped, isolation, testing>>

NextQueue == PushValue \/ AbortQueue \/ QueueExpiry \/ CallbackSettles
SpecQueue == Init /\ [][NextQueue]_vars

\* Properties
\* ===================================================================
\* the armed timers of a debounce queue object
ArmedTimers(ts, o) == {t \in ts : t.cb.kind = "debounce" /\ t.cb.obj = o}
\* the armed timers that would flush a value for a key
ArmedForKey(ts, k) == {t \in ts : t.cb.kind = "debounce" /\ t.cb.value.key = k}
\* the key has a debounce entry whose timer is running
InWindow(k) == queues[k] # 0 /\ objs[queues[k]].queuedValue # NoUpdate

\* C1, in every state: the callback of a debounce window runs at most once,
\* with the value of the last push of the window; the promise handed out for
\* the window stays pending until then and afterwards is settled exactly as
\* the flush that the callback started.
C1_Window ==
    \A p \in DOMAIN promises :
        LET w == windows[p]
        IN  /\ w.fires <= 1
            /\ w.fires = 1 =>
                 /\ w.kind = "debounce"
                 /\ w.fired = w.query
                 /\ w.flush # 0
                 /\ promises[p] = promises[w.flush]
            /\ (w.kind = "debounce" /\ w.fires = 0 /\ w.outer = 0) =>
                 promises[p].st = "pending"

\* C1, in every step: a finite-delay push to a key whose timer is running is
\* handed the promise of the earlier pushes and leaves exactly one armed
\* timer, with the full new delay and the new value.
C1_Restart ==
    \A k \in Keys : \A i \in 1 .. Len(last'.trace) :
        LET e == last'.trace[i]
            o == queues[k]
            r == objs[o].resolvers
        IN  (e.ev = "debounce.push" /\ e.key = k /\ IsFinite(e.ms) /\ InWindow(k)) =>
              /\ queues'[k] = o
              /\ windows'[r].pushes = windows[r].pushes + 1
              /\ windows'[r].query = e.query
              /\ \E t \in timers' :
                    /\ ArmedTimers(timers', o) = {t}
                    /\ t.rem = e.ms
                    /\ t.cb.value = PushArgs(k, e.query, e.options)

\* C1: pushes to one key inside the delay share one promise, restart the
\* timer, and are settled by the single flush that carries the last value.
C1_DebounceWindow == []C1_Window /\ [][C1_Restart]_vars

C1_Witness ==
    \E p \in DOMAIN promises :
        /\ windows[p].pushes >= 2
        /\ windows[p].fires = 1
        /\ promises[p].st = "resolved"

\* the pending map after the throttled pushes of a trace, a commit clearing it
RECURSIVE Replay(_, _)
Replay(map, trace) ==
    IF trace = <<>> THEN map
    ELSE LET e == trace[1]
         IN  Replay(IF e.ev = "throttle.push" THEN [map EXCEPT ![e.key] = e.query]
                    ELSE IF e.ev = "updateUrl" THEN [k \in Keys |-> Undefined]
                    ELSE map,
                    Tail(trace))

\* the part of a trace before its first updateUrl
RECURSIVE BeforeCommit(_)
BeforeCommit(trace) ==
    IF trace = <<>> \/ trace[1].ev = "updateUrl" THEN <<>>
    ELSE <<trace[1]>> \o BeforeCommit(Tail(trace))

Commits(trace) == SelectEvents(trace, {"updateUrl"})
Flushes(trace) == SelectEvents(trace, {"flush"})

\* C2, in every step: the pending map holds, per key, the value of the last
\* push since the last commit; a commit hands updateUrl the current params
\* with exactly those values merged in and resolves the window's promise with
\* them; and a flush called while a commit is scheduled is given the promise
\* of that scheduled commit.
C2_Step ==
    LET trace == last'.trace
    IN  /\ tq'.updateMap = Replay(tq.updateMap, trace)
        /\ \A i \in 1 .. Len(Commits(trace)) :
              LET e == Commits(trace)[i]
                  pending == Replay(tq.updateMap, BeforeCommit(trace))
              IN  /\ e.params = [k \in Keys |->
                        IF pending[k] # Undefined THEN pending[k] ELSE url[k]]
                  /\ promises'[e.p] \in {ResolvedWith(e.params), RejectedWith(e.p)}
                  /\ promises'[e.p].st = "resolved" => url' = e.params
        /\ \A i \in 1 .. Len(Flushes(trace)) :
              /\ tq.resolvers # 0 => Flushes(trace)[i].p = tq.resolvers
              /\ Flushes(trace)[i].p = Flushes(trace)[1].p

\* C2: one coalescing window commits the last value pushed per key and gives
\* every flush caller the same promise, resolved with the committed params.
C2_LastValuePerKey == [][C2_Step]_vars

\* two throttled writes to one key with different values shared one window,
\* and its commit carried the second value
C2_Witness ==
    /\ last.op = "flushNow"
    /\ Len(promises) = 1 /\ windows[1].callers = 2 /\ promises[1].st = "resolved"
    /\ Len(bus) = 2 /\ bus[1].key = bus[2].key /\ bus[1].query # bus[2].query
    /\ url[bus[2].key] = bus[2].query
    /\ promises[1].val = url

\* C3, in every state and for every key: while the key's debounce entry has a
\* timer running, getQueuedQuery returns the query that timer will flush, null
\* included; otherwise it returns the throttle queue's pending query, and
\* undefined when there is none.
C3_GetQueuedQuery ==
    \A k \in Keys :
        LET armed == IF queues[k] = 0 THEN {} ELSE ArmedTimers(timers, queues[k])
        IN  /\ \A t \in armed : GetQueuedQuery(Heap, k) = t.cb.value.query
            /\ armed = {} => GetQueuedQuery(Heap, k) = tq.updateMap[k]
            /\ (armed = {} /\ tq.updateMap[k] = Undefined) =>
                   GetQueuedQuery(Heap, k) = Undefined

\* a null is queued in the debounce entry of a key for which the throttle
\* queue holds another pending query: the lookup answers null
C3_Witness ==
    \E k \in Keys :
        /\ queues[k] # 0
        /\ \E t \in ArmedTimers(timers, queues[k]) : t.cb.value.query = Null
        /\ tq.updateMap[k] \in Queries
        /\ GetQueuedQuery(Heap, k) = Null

ThrottlePushes(trace) == SelectEvents(trace, {"throttle.push"})
DebouncePushes(trace) == SelectEvents(trace, {"debounce.push"})

\* C4, in every state: a debounce promise that an abort function was applied
\* to is pending as long as the promise it was given is, and then has that
\* promise's outcome.
C4_Wired ==
    \A p \in DOMAIN promises :
        windows[p].outer # 0 => promises[p] = promises[windows[p].outer]

\* C4, in every write that throttles a key: with an entry for the key, the
\* entry is removed, its timer is cancelled and its promise is wired to the
\* promise of the flush, which the write returns unchanged; with no entry
\* nothing is wired and the flush promise is returned as it is.
C4_Step ==
    \A k \in Keys :
        LET trace == last'.trace
            o == queues[k]
            r == objs[o].resolvers
            f == Flushes(trace)[1].p
        IN  (/\ last'.op = "write"
             /\ \E i \in 1 .. Len(ThrottlePushes(trace)) : ThrottlePushes(trace)[i].key = k
             /\ DebouncePushes(trace) = <<>>) =>
               /\ last'.ret = f
               /\ queues'[k] = 0
               /\ o # 0 =>
                    /\ ArmedTimers(timers', o) = {}
                    /\ windows'[r].outer = f
                    /\ promises'[r] = promises'[f]
                    /\ promises'[f].st = "pending" =>
                          \E x \in reactions' :
                              x.kind = "then" /\ x.src = f /\ x.dst = r
               /\ o = 0 => \A x \in reactions' \ reactions : x.kind # "then"

\* C4: abort(key) cancels the key's debounce and returns a passthrough that
\* settles the aborted promise like the promise it is given, the identity
\* when the key has no entry.
C4_AbortPassthrough == []C4_Wired /\ [][C4_Step]_vars

\* an aborted debounce promise was rejected with the error of the flush it
\* had been wired to
C4_Witness ==
    \E p \in DOMAIN promises :
        /\ windows[p].kind = "debounce" /\ windows[p].fires = 0
        /\ windows[p].outer # 0
        /\ promises[windows[p].outer].st = "rejected"
        /\ promises[p] = promises[windows[p].outer]

\* C5, in every state: the window of a scheduled commit has seen no updateUrl
\* while its promise is pending and exactly one once it is settled, however
\* many flush calls landed in it.
C5_Windows ==
    \A p \in DOMAIN promises :
        windows[p].kind = "flush" =>
            /\ windows[p].callers >= 1
            /\ windows[p].updateUrls = IF promises[p].st = "pending" THEN 0 ELSE 1

\* C5, in every step: updateUrl is invoked at most once; a commit happens only
\* once the floor has elapsed; the flush calls made before the floor has
\* elapsed all join the one commit scheduled for its end; and a flush call
\* that finds a commit scheduled leaves it scheduled and invokes nothing.
C5_Step ==
    LET trace == last'.trace
    IN  /\ Len(Commits(trace)) <= 1
        /\ Commits(trace) # <<>> => tq.cooldown = 0
        /\ (tq.cooldown > 0 /\ Flushes(trace) # <<>>) =>
              /\ tq'.resolvers # 0
              /\ \A i \in 1 .. Len(Flushes(trace)) : Flushes(trace)[i].p = tq'.resolvers
              /\ \E t \in timers' : t.cb = FlushNowCb /\ t.rem = tq.cooldown
        /\ (tq.resolvers # 0 /\ Flushes(trace) # <<>>) =>
              /\ Commits(trace) = <<>>
              /\ tq'.resolvers = tq.resolvers
              /\ windows'[tq.resolvers].callers =
                    windows[tq.resolvers].callers + Len(Flushes(trace))

\* C5: the flush calls of one coalescing window share a single updateUrl
\* invocation.
C5_OneUpdateUrlPerWindow == []C5_Windows /\ [][C5_Step]_vars

\* two flush calls made at different times landed in one window, which was
\* committed by one updateUrl
C5_Witness ==
    \E p \in DOMAIN promises :
        /\ windows[p].kind = "flush" /\ windows[p].callers = 2
        /\ windows[p].updateUrls = 1 /\ promises[p].st = "resolved"
        /\ writes = 2 /\ last.op = "flushNow"

C6_OnePerQueue ==
    \A k \in Keys :
        /\ Cardinality(ArmedForKey(timers, k)) <= 1
        /\ \A t \in ArmedForKey(timers, k) :
              /\ queues[k] # 0 /\ t.cb.obj = queues[k]
              /\ objs[queues[k]].queuedValue = t.cb.value
        /\ InWindow(k) =>
              /\ objs[queues[k]].queuedValue.key = k
              /\ ArmedTimers(timers, queues[k]) # {}

\* C6 amended, in every write: a debounced write replaces the value queued in
\* the key's debounce entry, and a throttled write removes the key's debounce
\* entry with its timer and replaces the key's value in the pending map (or
\* is committed at once).
C6_Supersedes ==
    LET trace == last'.trace
    IN  last'.op = "write" =>
          /\ \A i \in 1 .. Len(DebouncePushes(trace)) :
                LET e == DebouncePushes(trace)[i]
                IN  IsFinite(e.ms) =>
                      /\ queues'[e.key] # 0
                      /\ objs'[queues'[e.key]].queuedValue = PushArgs(e.key, e.query, e.options)
                      /\ \A t \in ArmedForKey(timers', e.key) : t.cb.value.query = e.query
          /\ \A i \in 1 .. Len(ThrottlePushes(trace)) :
                LET e == ThrottlePushes(trace)[i]
                IN  /\ queues'[e.key] = 0
                    /\ ArmedForKey(timers', e.key) = {}
                    /\ IF Commits(trace) = <<>>
                       THEN tq'.updateMap[e.key] = e.query
                       ELSE Commits(trace)[1].params[e.key] = e.query

PendingKeys(map) == {k \in Keys : map[k] # Undefined}

\* C7, in every step: a commit carries exactly the keys pushed since the
\* previous commit and before this one started, leaves every other key of the
\* URL as it was and empties the pending map; a write pushes its updates
\* before it calls flush, so they are part of the commit its promise stands
\* for; a step without a commit leaves the URL alone and keeps what was pushed
\* for the next commit; and a flush call never joins a window whose commit
\* has already run.
C7_Step ==
    LET trace == last'.trace
        pending == Replay(tq.updateMap, BeforeCommit(trace))
    IN  /\ \A i \in 1 .. Len(Commits(trace)) :
              LET e == Commits(trace)[i]
              IN  /\ e.keys = PendingKeys(pending)
                  /\ \A k \in Keys \ e.keys : e.params[k] = url[k]
                  /\ \A k \in e.keys : e.params[k] = pending[k]
                  /\ \A k \in Keys : url'[k] \in {url[k], e.params[k]}
        /\ tq'.updateMap = Replay(tq.updateMap, trace)
        /\ last'.op = "write" =>
              \A i, j \in 1 .. Len(trace) :
                  (trace[i].ev = "throttle.push" /\ trace[j].ev = "flush") => i < j
        /\ Commits(trace) = <<>> =>
              /\ url' = url
              /\ PendingKeys(tq'.updateMap) =
                    PendingKeys(tq.updateMap) \cup
                    {ThrottlePushes(trace)[i].key : i \in 1 .. Len(ThrottlePushes(trace))}
        /\ \A i \in 1 .. Len(Flushes(trace)) :
              LET p == Flushes(trace)[i].p
              IN  p \in DOMAIN promises => promises[p].st = "pending"

\* C7: a throttled commit contains exactly the updates pushed before it
\* started; later pushes wait for the next window.
C7_CommitContents == [][C7_Step]_vars

\* updates for both keys, pushed by separate writes while the flush waited
\* for the floor, were committed by one updateUrl
C7_Witness ==
    /\ last.op = "flushNow" /\ writes = 2
    /\ \E i \in 1 .. Len(last.trace) :
          /\ last.trace[i].ev = "updateUrl"
          /\ last.trace[i].keys = Keys
          /\ url = last.trace[i].params
          /\ windows[last.trace[i].p].updateUrls = 1

\* the limit of the highest layer that sets one: call, field, hook
LayeredLimit(callOptions, parser, hook) ==
    IF callOptions.limitUrlUpdates.method # <<>> THEN callOptions.limitUrlUpdates
    ELSE IF parser.limitUrlUpdates.method # <<>> THEN parser.limitUrlUpdates
    ELSE hook.limitUrlUpdates

\* C8 as stated, in every write and for every field written: the field goes
\* to the queue, and with the delay, that the highest layer setting a rate
\* limit names (per call, then per field, then the hook, then the default
\* throttle).
C8_Step ==
    last'.op = "write" =>
        \A i \in 1 .. Len(last'.newState) :
            LET k == last'.newState[i].field
                lim == LayeredLimit(last'.callOptions, keyMap[k], options)
                pushes == {j \in 1 .. Len(last'.trace) :
                              /\ last'.trace[j].key = k
                              /\ last'.trace[j].ev \in {"debounce.push", "throttle.push"}}
            IN  \A j \in pushes :
                    IF lim.method = <<"debounce">>
                    THEN /\ last'.trace[j].ev = "debounce.push"
                         /\ last'.trace[j].ms = Coalesce(lim.timeMs, <<DefaultTimeMs>>)[1]
                    ELSE last'.trace[j].ev = "throttle.push"

\* C8: method and delay of every written field follow the priority per call >
\* per field > hook > default.
C8_PolicyPriority == [][C8_Step]_vars

\* C9 as stated, in every write: with a debounced field the write returns the
\* promise the controller handed out for a debounced field whose delay is the
\* longest of the call (a delay of 0 included); with none it returns the
\* promise of the throttled flush.
C9_Step ==
    LET trace == last'.trace
        pushes == DebouncePushes(trace)
    IN  last'.op = "write" =>
          IF pushes # <<>>
          THEN \E i \in 1 .. Len(pushes) :
                  /\ \A j \in 1 .. Len(pushes) : pushes[j].ms <= pushes[i].ms
                  /\ last'.ret = pushes[i].p
          ELSE last'.ret = Flushes(trace)[1].p

\* C9: a write with a debounced field returns the debounce promise of the
\* longest delay, otherwise the throttled flush promise.
C9_LongestDebounce == [][C9_Step]_vars

\* the entries of a new state whose field has a parser, in order
Declared(newState) ==
    SelectSeq(newState, LAMBDA en : en.field \in DOMAIN keyMap)

\* the position in a trace of the i-th event of the given kinds
RECURSIVE Position(_, _, _, _)
Position(trace, evs, i, from) ==
    IF from > Len(trace) THEN 0
    ELSE IF trace[from].ev \in evs
         THEN IF i = 1 THEN from ELSE Position(trace, evs, i - 1, from + 1)
         ELSE Position(trace, evs, i, from + 1)

\* C10, in every step: a write emits one payload per written field that has
\* a parser, in field order, for the field's key, with the state written (null
\* when it is the default being cleared) and its serialized query; each is
\* emitted before that field's update is pushed to a queue, hence before the
\* flush and any updateUrl of the write; the payloads join the bus log after
\* those of earlier writes; and no other step emits.
C10_Step ==
    LET trace == last'.trace
        emits == SelectEvents(trace, {"emit"})
        fields == Declared(last'.newState)
        Pushed == {"debounce.push", "throttle.push"}
    IN  /\ last'.op # "write" => emits = <<>> /\ bus' = bus
        /\ last'.op = "write" =>
              /\ Len(emits) = Len(fields)
              /\ Len(SelectEvents(trace, Pushed)) = Len(fields)
              /\ \A i \in 1 .. Len(fields) :
                    LET e == emits[i]
                        d == keyMap[fields[i].field].defaultValue
                    IN  /\ e.key = fields[i].field
                        /\ e.state = IF d = <<fields[i].value>> THEN Null
                                     ELSE fields[i].value
                        /\ e.query = IF e.state = Null THEN Null ELSE Serialize(e.state)
                        /\ trace[Position(trace, Pushed, i, 1)].key = e.key
                        /\ trace[Position(trace, Pushed, i, 1)].query = e.query
                        /\ Position(trace, {"emit"}, i, 1) < Position(trace, Pushed, i, 1)
                        /\ i > 1 => Position(trace, Pushed, i - 1, 1)
                                       < Position(trace, {"emit"}, i, 1)
              /\ \A j \in 1 .. Len(trace) :
                    trace[j].ev \in {"flush", "updateUrl"} =>
                        \A i \in 1 .. Len(trace) : trace[i].ev = "emit" => i < j
              /\ bus' = bus \o [i \in 1 .. Len(emits) |-> Payload(emits[i])]

\* C10: every written field with a codec is announced on the bus once,
\* synchronously and before it is queued or committed, in call and field
\* order.
C10_BusEmission == [][C10_Step]_vars

\* a second write named a debounced and a throttled field and emitted both,
\* after a first write that named a field without parser and emitted once
C10_Witness ==
    /\ last.op = "write" /\ writes = 2
    /\ Len(SelectEvents(last.trace, {"emit"})) = 2
    /\ DebouncePushes(last.trace) # <<>> /\ ThrottlePushes(last.trace) # <<>>
    /\ Len(bus) = 3
    /\ bus[2] = Payload(SelectEvents(last.trace, {"emit"})[1])
    /\ bus[3] = Payload(SelectEvents(last.trace, {"emit"})[2])

\* the debounce windows whose timer has fired
FiredWindows == {p \in DOMAIN promises : windows[p].kind = "debounce" /\ windows[p].fires = 1}

\* C11, in every state: the promise of a debounce window whose flush was
\* rejected is rejected with the error of that flush; the key's entry, if
\* there is one, has moved on to another promise, which is pending; and a
\* window of the same key flushed by a later flush has that flush's outcome.
C11_Rejected ==
    \A p \in FiredWindows :
        LET f == windows[p].flush
            k == windows[p].key
        IN  promises[f].st = "rejected" =>
              /\ promises[p].st = "rejected" /\ promises[p].err = promises[f].err
              /\ queues[k] # 0 =>
                    /\ objs[queues[k]].resolvers # p
                    /\ promises[objs[queues[k]].resolvers].st = "pending"
              /\ \A p2 \in FiredWindows :
                    (windows[p2].key = k /\ windows[p2].flush # f) =>
                        promises[p2] = promises[windows[p2].flush]

\* C11, in every step in which a commit fails: the URL is left as it was, the
\* pending map is emptied, and the only debounce entries left are those that
\* hold a value queued since, with their timer armed.
C11_Step ==
    LET failed == {i \in 1 .. Len(Commits(last'.trace)) :
                      promises'[Commits(last'.trace)[i].p].st = "rejected"}
    IN  failed # {} =>
          /\ url' = url
          /\ \A k \in Keys : tq'.updateMap[k] = Undefined
          /\ \A k \in Keys :
                queues'[k] # 0 =>
                    /\ objs'[queues'[k]].queuedValue # NoUpdate
                    /\ ArmedTimers(timers', queues'[k]) # {}

\* C11: a rejected flush rejects the debounce promises it was fed by and
\* leaves no stale value or error behind for later pushes of the key.
C11_RejectedFlush == []C11_Rejected /\ [][C11_Step]_vars

\* the flush of a key's debounce window was rejected, and a later window of
\* the same key was flushed and resolved with the URL carrying its value
C11_Witness ==
    \E p, p2 \in FiredWindows :
        /\ windows[p].key = windows[p2].key /\ p < p2
        /\ promises[p].st = "rejected"
        /\ promises[p2].st = "resolved"
        /\ promises[p2].val[windows[p2].key] = windows[p2].fired
        /\ url = promises[p2].val

\* the flush started by the expiry of the key's timer has not settled yet
CleanupWaiting(rs, k) == \E r \in rs : r.kind = "finally" /\ r.key = k
FlushInFlight(k) == CleanupWaiting(reactions, k)

\* C12, in every state: the controller holds an entry for a key only while a
\* value is queued in it or the flush of its last value is in flight, and a
\* flush is in flight only while the throttled queue has a commit scheduled.
C12_Entries ==
    \A k \in Keys :
        /\ queues[k] # 0 => InWindow(k) \/ FlushInFlight(k)
        /\ FlushInFlight(k) => tq.resolvers # 0

\* C12, in every expiry of a debounce timer: the value the timer carried is
\* pushed to the throttled queue, which is then flushed; the entry's queued
\* value is cleared; the entry is deleted at once when the flush settles at
\* once, and is kept while the flush is in flight.
C12_Expiry ==
    last'.op = "debounceTick" =>
        LET t == last'.timer
            k == t.cb.value.key
            o == t.cb.obj
            trace == last'.trace
        IN  /\ t \in timers /\ t.rem = 0 /\ queues[k] = o
            /\ Len(trace) >= 2
            /\ trace[1].ev = "throttle.push" /\ trace[1].key = k
            /\ trace[1].query = t.cb.value.query
            /\ trace[2].ev = "flush"
            /\ windows'[objs[o].resolvers].flush = trace[2].p
            /\ objs'[o].queuedValue = NoUpdate
            /\ ArmedTimers(timers', o) = {}
            /\ IF promises'[trace[2].p].st = "pending"
               THEN queues'[k] = o /\ CleanupWaiting(reactions', k)
               ELSE queues'[k] = 0

\* C12, in every step that settles a flush in flight for a key: the key's
\* entry is kept, with its timer, exactly if a value is queued in it, and is
\* deleted otherwise.
C12_Cleanup ==
    \A k \in Keys :
        (FlushInFlight(k) /\ Commits(last'.trace) # <<>>) =>
            /\ ~CleanupWaiting(reactions', k)
            /\ IF InWindow(k)
               THEN /\ queues'[k] = queues[k]
                    /\ objs'[queues[k]].queuedValue = objs[queues[k]].queuedValue
                    /\ ArmedTimers(timers', queues[k]) = ArmedTimers(timers, queues[k])
                    /\ ArmedTimers(timers', queues[k]) # {}
               ELSE queues'[k] = 0

C13_Exclusive ==
    /\ \A i \in 1 .. MaxTimers : scoped.calls[i] <= 1
    /\ \A h \in scoped.handles :
          scoped.calls[h.id] = 0 /\ h.sig \notin scoped.aborted

\* C13, in every step: a callback is invoked only by its own handle, when the
\* delay has run out and the signal is not aborted; aborting a signal
\* disarms the timers armed on it without invoking them; and an abort that
\* finds no armed timer on the signal changes no handle and invokes nothing.
C13_Step ==
    /\ \A i \in 1 .. MaxTimers :
          scoped'.calls[i] # scoped.calls[i] =>
              /\ scoped'.calls[i] = scoped.calls[i] + 1
              /\ \E h \in scoped.handles :
                    /\ h.id = i /\ h.rem = 0 /\ h.sig \notin scoped.aborted
                    /\ h \notin scoped'.handles
    /\ \A sig \in scoped'.aborted \ scoped.aborted :
          /\ scoped'.calls = scoped.calls
          /\ scoped'.handles = {h \in scoped.handles : h.sig # sig}

C14_NoListenerLeft ==
    \A l \in scoped.listeners : \E h \in scoped.handles : h.id = l.id /\ h.sig = l.sig

\* the keys a write names
Written(newState) == {newState[i].field : i \in 1 .. Len(newState)}

\* C15, in every write: a key the write does not name keeps its entry, the
\* value queued in it, its armed timer with the time left on it, and its
\* promise, whether the write restarts or aborts the timers of the keys it
\* names.
C15_Step ==
    last'.op = "write" =>
        \A j \in Keys \ Written(last'.newState) :
            /\ queues'[j] = queues[j]
            /\ queues[j] # 0 =>
                  LET o == queues[j]
                  IN  /\ objs'[o] = objs[o]
                      /\ ArmedTimers(timers', o) = ArmedTimers(timers, o)
                      /\ promises'[objs[o].resolvers] = promises[objs[o].resolvers]
            /\ ArmedForKey(timers', j) = ArmedForKey(timers, j)

\* C15, in every expiry of a debounce timer: the timer that fires is due and
\* is the one of its own key's entry, and the timers of the other keys stay
\* armed as they were.
C15_Expiry ==
    last'.op = "debounceTick" =>
        LET t == last'.timer
        IN  /\ t.rem = 0 /\ t \in ArmedForKey(timers, t.cb.value.key)
            /\ \A j \in Keys \ {t.cb.value.key} :
                  ArmedForKey(timers', j) = ArmedForKey(timers, j)

\* C15: aborting or restarting the debounce timer of one key leaves the
\* entries, timers and promises of the other keys alone.
C15_KeyIsolation == [][C15_Step]_vars /\ [][C15_Expiry]_vars

\* a write to key a alone aborted a's debounce entry while b's entry was
\* waiting: b's value is still queued and its timer armed
C15_Witness ==
    /\ last.op = "write" /\ Written(last.newState) = {"a"}
    /\ \E p \in DOMAIN promises :
          windows[p].kind = "debounce" /\ windows[p].key = "a" /\ windows[p].outer # 0
    /\ InWindow("b") /\ ArmedTimers(timers, queues["b"]) # {}
    /\ promises[objs[queues["b"]].resolvers].st = "pending"

\* ===================================================================
\* abortAll

\* the keys the controller holds an entry for
HeldKeys == {k \in Keys : queues[k] # 0}

\* every debounce timer belongs to a queue the controller still holds, so a
\* queue that left the controller can never fire
C16_TimersHeld ==
    \A t \in timers : t.cb.kind = "debounce" =>
        \E k \in Keys : queues[k] = t.cb.obj

\* abortAll: no debounce timer is left, the promise of every entry is
\* resolved with the empty parameters without its value ever having fired,
\* nothing reached the throttled queue or the URL, no entry is left
C16_Step ==
    last'.op = "abortAll" =>
        /\ \A t \in timers' : t.cb.kind # "debounce"
        /\ \A k \in HeldKeys :
              LET p == objs[queues[k]].resolvers
              IN  /\ promises[p] = PendingPromise
                  /\ promises'[p] = ResolvedWith(EmptyParams)
                  /\ windows'[p].fires = 0
        /\ tq' = tq /\ url' = url
        /\ last'.trace = <<>>
        /\ \A k \in Keys : queues'[k] = 0

\* C16: after abortAll() the pending timers never fire (their value is never
\* pushed to the throttled queue), the promise the pending callers hold is
\* resolved with empty URLSearchParams, and the controller holds no entries.
C16_AbortAll == []C16_TimersHeld /\ [][C16_Step]_vars

\* abortAll has just resolved the promise of a queue whose value was waiting
C16_Witness ==
    /\ last.op = "abortAll"
    /\ url # EmptyParams
    /\ \E o \in DOMAIN objs :
          /\ promises[objs[o].resolvers] = ResolvedWith(EmptyParams)
          /\ windows[objs[o].resolvers].pushes > 0
          /\ windows[objs[o].resolvers].fires = 0

\* C17: a second abortAll() in a row is a no-op: it touches no entry, no
\* timer and no promise, and resolves nothing a second time.
C17_Step ==
    (last.op = "abortAll" /\ last'.op = "abortAll") =>
        UNCHANGED <<queues, objs, timers, ctl, tq, promises, reactions, url,
                    signal, windows, bus, thrown>>

C17_SecondAbortAll == [][C17_Step]_vars

\* abortAll has resolved a promise and has been called once more since
C17_Witness ==
    /\ last.op = "abortAll"
    /\ last.ret = 2
    /\ \E o \in DOMAIN objs :
          /\ promises[objs[o].resolvers] = ResolvedWith(EmptyParams)
          /\ windows[objs[o].resolvers].pushes > 0

\* ===================================================================
\* push with a delay that is not finite

\* the elements of a sequence
Range(seq) == {seq[i] : i \in DOMAIN seq}

\* the keys a write pushed to the debounce controller with a non-finite delay
ImmediateKeys(trace) ==
    {e.key : e \in {x \in Range(SelectEvents(trace, {"debounce.push"})) : ~IsFinite(x.ms)}}

\* a push with a non-finite delay hands out a new promise, already resolved
\* with the adapter's snapshot at the time of the call
C18_Resolved ==
    \A e \in Range(SelectEvents(last'.trace, {"debounce.push"})) :
        ~IsFinite(e.ms) =>
            /\ e.p > Len(promises)
            /\ promises'[e.p] = ResolvedWith(url)

\* and it leaves the controller as it was for that key: no entry is created,
\* no timer is armed, an entry the key already has keeps its queued value,
\* its promise and its timer
C18_Untouched ==
    \A k \in ImmediateKeys(last'.trace) :
        /\ queues'[k] = queues[k]
        /\ queues[k] # 0 =>
              /\ objs'[queues[k]] = objs[queues[k]]
              /\ ArmedTimers(timers', queues[k]) = ArmedTimers(timers, queues[k])
        /\ \A t \in timers' \ timers : ~(t.cb.kind = "debounce" /\ t.cb.value.key = k)

\* C18: DebounceController.push with a non-finite delay returns an already
\* resolved promise carrying the adapter's current snapshot, creates no
\* entry, arms no timer and leaves an existing entry and timer of the key
\* unchanged.
C18_NonFinitePush == [][C18_Resolved /\ C18_Untouched]_vars

\* a key whose debounce timer is running has just been pushed with a
\* non-finite delay
C18_Witness ==
    /\ last.op = "write"
    /\ \E k \in ImmediateKeys(last.trace) :
          /\ queues[k] # 0
          /\ ArmedTimers(timers, queues[k]) # {}

\* ===================================================================
\* the key-isolation filter

\* the entries of a list whose key is in ks, in order
RECURSIVE Keep(_, _)
Keep(list, ks) ==
    IF list = <<>> THEN <<>>
    ELSE (IF Head(list).key \in ks THEN <<Head(list)>> ELSE <<>>) \o Keep(Tail(list), ks)

\* the values of a list's entries, in order
ValuesIn(list) == [i \in DOMAIN list |-> list[i].value]

\* the changed keys hold exactly the new query's values in order; the entries
\* of every other key are all there, unchanged and in their relative order
C19_Contract ==
    isolation.applied =>
        LET changed == {isolation.changedUrlKeys[j] : j \in DOMAIN isolation.changedUrlKeys}
            others == (KeysOf(isolation.fullParams) \cup KeysOf(isolation.result)) \ changed
        IN  /\ \A k \in changed :
                 ValuesIn(Keep(isolation.result, {k})) =
                     QueryValues(isolation.newQuery[k])
            /\ Keep(isolation.result, others) = Keep(isolation.fullParams, others)

\* a=1&b=2 with a set to null gives b=2; m=1&n=2 with m set to [x, y] gives
\* m=x&m=y&n=2
C19_Examples ==
    isolation.applied =>
        /\ (/\ isolation.fullParams = <<[key |-> "a", value |-> "1"], [key |-> "b", value |-> "2"]>>
            /\ isolation.changedUrlKeys = <<"a">>
            /\ isolation.newQuery["a"] = QNull)
           => isolation.result = <<[key |-> "b", value |-> "2"]>>
        /\ (/\ isolation.fullParams = <<[key |-> "m", value |-> "1"], [key |-> "n", value |-> "2"]>>
            /\ isolation.changedUrlKeys = <<"m">>
            /\ isolation.newQuery["m"] = QArray(<<"x", "y">>))
           => isolation.result = <<[key |-> "m", value |-> "x"], [key |-> "m", value |-> "y"],
                                   [key |-> "n", value |-> "2"]>>

\* C19: applyChange gives every changed key exactly the new query's values in
\* order (none for null, all of them for an array) and leaves every entry of
\* every other key present, unchanged and in its relative order; a=1&b=2 with
\* a set to null gives b=2, m=1&n=2 with m set to [x, y] gives m=x&m=y&n=2.
C19_ApplyChange == C19_Contract /\ C19_Examples

\* applyChange has written an array of two values over a key the list held,
\* next to an entry of another key
C19_Witness ==
    /\ isolation.applied
    /\ \E k \in KeysOf(isolation.fullParams) \cap DOMAIN isolation.newQuery :
          /\ isolation.newQuery[k].kind = "array"
          /\ Len(isolation.newQuery[k].value) = 2
          /\ KeysOf(isolation.fullParams) # {k}
          /\ Len(isolation.result) = 3

\* ===================================================================
\* shallow navigation with a debounced field

Warnings(trace) == SelectEvents(trace, {"console.warn"})

\* the pushes of a trace that carry shallow: true
RECURSIVE ShallowPushes(_)
ShallowPushes(pushes) ==
    IF pushes = <<>> THEN <<>>
    ELSE (IF Head(pushes).options.shallow = TRUE THEN <<Head(pushes)>> ELSE <<>>) \o
         ShallowPushes(Tail(pushes))

\* in every write: each debounced field is pushed to the debounce controller
\* with its key, its query and the options the caller's, the parser's and the
\* hook's settings give, and is queued with them under an armed timer; the
\* console is warned once for each of these pushes that is shallow, and for
\* nothing else; when every field is debounced the write throws nothing
\* unless its own flush commits and updateUrl throws, and it returns the
\* pending promise of a push
C20_Write ==
    last'.op = "write" =>
        LET trace == last'.trace
            co == last'.callOptions
            fields == SelectSeq(Declared(last'.newState), LAMBDA en :
                          IsDebounced(co.limitUrlUpdates, options.limitUrlUpdates,
                                      keyMap[en.field].limitUrlUpdates))
            pushes == DebouncePushes(trace)
            warns == Warnings(trace)
            shallows == ShallowPushes(pushes)
        IN  /\ Len(pushes) = Len(fields)
            /\ \A i \in 1 .. Len(fields) :
                  LET e == pushes[i]
                      parser == keyMap[fields[i].field]
                      k == fields[i].field
                  IN  /\ e.key = k
                      /\ e.query = QueryOf(ClearedValue(fields[i].value, co, parser, options))
                      /\ e.options = UpdateOptions(co, parser, options)
                      /\ e.options.shallow = (co.shallow # <<FALSE>>)
                      /\ queues'[k] # 0
                      /\ objs'[queues'[k]].queuedValue.key = k
                      /\ objs'[queues'[k]].queuedValue.options =
                            pushes[CHOOSE j \in 1 .. Len(pushes) :
                                      /\ pushes[j].key = k
                                      /\ \A l \in j + 1 .. Len(pushes) : pushes[l].key # k].options
                      /\ ArmedForKey(timers', k) # {}
            /\ Len(warns) = Len(shallows)
            /\ \A i \in 1 .. Len(warns) :
                  warns[i].key = shallows[i].key /\ warns[i].query = shallows[i].query
            /\ (fields # <<>> /\ Len(fields) = Len(Declared(last'.newState))) =>
                  /\ Commits(trace) = <<>> => thrown' = thrown
                  /\ last'.ret = pushes[1].p
                  /\ promises'[last'.ret] = PendingPromise

\* when the timer of a debounced update expires, shallow or not, the update
\* goes to the throttled queue with the key, query and options it was pushed
\* with, and the throttled queue is flushed
C20_Flush ==
    last'.op = "debounceTick" =>
        LET u == last'.timer.cb.value
            trace == last'.trace
        IN  /\ Warnings(trace) = <<>>
            /\ Len(ThrottlePushes(trace)) = 1
            /\ ThrottlePushes(trace)[1].key = u.key
            /\ ThrottlePushes(trace)[1].query = u.query
            /\ ThrottlePushes(trace)[1].options = u.options
            /\ Len(Flushes(trace)) = 1
            /\ windows'[objs[last'.timer.cb.obj].resolvers].flush = Flushes(trace)[1].p

\* C20: a write that combines shallow navigation with a debounced field only
\* warns on the console: nothing is thrown or rejected, the update is pushed
\* to the debounce controller with the same key, query and options, and it is
\* flushed like any other debounced update.
C20_ShallowDebounce == [][C20_Write]_vars /\ [][C20_Flush]_vars

\* the timer of a shallow debounced update has expired: the update is in
\* the throttled queue, whose flush has been asked for, and nothing was thrown
C20_Witness ==
    LET u == last.timer.cb.value
    IN  /\ last.op = "debounceTick"
        /\ u.options.shallow = TRUE
        /\ Len(ThrottlePushes(last.trace)) = 1 /\ Len(Flushes(last.trace)) = 1
        /\ tq.updateMap[u.key] = u.query
        /\ tq.resolvers # 0
        /\ ~thrown

\* ===================================================================
\* the testing adapter

\* in every state: without memory the search params and the snapshot are the
\* initial search params; with memory, once updateUrl has been called, both
\* are the params of the most recent call
C21_Params ==
    LET calls == testing.onUrlUpdate
    IN  /\ ~testing.hasMemory =>
              /\ testing.searchParams = testing.initial
              /\ GetSearchParamsSnapshot(testing) = testing.initial
        /\ (testing.hasMemory /\ calls # <<>>) =>
              /\ testing.searchParams = calls[Len(calls)].searchParams
              /\ GetSearchParamsSnapshot(testing) = calls[Len(calls)].searchParams

\* in every updateUrl: onUrlUpdate is called once, with the new params
C21_Step ==
    testing' # testing =>
        \E search \in ParamsSet :
            /\ Len(testing'.onUrlUpdate) = Len(testing.onUrlUpdate) + 1
            /\ SubSeq(testing'.onUrlUpdate, 1, Len(testing.onUrlUpdate)) = testing.onUrlUpdate
            /\ testing'.onUrlUpdate[Len(testing'.onUrlUpdate)].searchParams = search
            /\ ParseSearch(testing'.onUrlUpdate[Len(testing'.onUrlUpdate)].queryString) = search
            /\ testing'.hasMemory = testing.hasMemory
            /\ testing'.initial = testing.initial

\* C21: the testing adapter without memory keeps its search params and its
\* snapshot at the initial value through any updateUrl calls and calls
\* onUrlUpdate once per updateUrl with the new params; with memory, search
\* params and snapshot are those of the most recent updateUrl.
C21_TestingAdapter == []C21_Params /\ [][C21_Step]_vars

\* an adapter without memory has been given two updates that differ from its
\* initial search params
C21_Witness ==
    /\ ~testing.hasMemory
    /\ Len(testing.onUrlUpdate) = 2
    /\ testing.onUrlUpdate[1].searchParams # testing.initial
    /\ testing.onUrlUpdate[2].searchParams # testing.initial
    /\ testing.initial # EmptyParams

\* ===================================================================
\* a throttled write over a waiting debounced write

\* the promises handed to debounced writes whose queue was then aborted by a
\* throttled write
AbortedWindows ==
    {p \in DOMAIN promises : windows[p].outer # 0 /\ windows[p].pushes > 0}

\* in every state: the value that waited behind an aborted promise has not
\* fired and no timer is left that could fire it, and the promise is pending
\* as long as the flush of the aborting write is and then has its outcome
C22_Aborted ==
    \A p \in AbortedWindows :
        /\ windows[p].kind = "debounce"
        /\ windows[p].fires = 0
        /\ \A t \in timers : t.cb.kind = "debounce" => objs[t.cb.obj].resolvers # p
        /\ \A k \in Keys : queues[k] # 0 => objs[queues[k]].resolvers # p
        /\ windows[windows[p].outer].kind # "debounce"
        /\ promises[p] = promises[windows[p].outer]

\* in every write that throttles a key whose debounced value is waiting: the
\* entry is removed with its timer, the newer value is what the throttled
\* queue holds (or has just committed), and the waiting promise is tied to
\* the flush this write issued; and a timer that expires never belongs to an
\* aborted promise
C22_Step ==
    /\ \A k \in Keys :
          LET trace == last'.trace
              o == queues[k]
              r == objs[o].resolvers
              pushes == ThrottlePushes(trace)
          IN  (/\ last'.op = "write" /\ InWindow(k)
               /\ \E i \in 1 .. Len(pushes) : pushes[i].key = k) =>
                 /\ queues'[k] = 0
                 /\ ArmedForKey(timers', k) = {}
                 /\ Len(Flushes(trace)) = 1
                 /\ windows[r].outer = 0 /\ windows'[r].outer = Flushes(trace)[1].p
                 /\ LET new == pushes[CHOOSE i \in 1 .. Len(pushes) :
                                   /\ pushes[i].key = k
                                   /\ \A j \in i + 1 .. Len(pushes) : pushes[j].key # k].query
                    IN  IF Commits(trace) = <<>>
                        THEN tq'.updateMap[k] = new
                        ELSE Commits(trace)[1].params[k] = new
    /\ last'.op = "debounceTick" =>
          objs[last'.timer.cb.obj].resolvers \notin AbortedWindows

\* C22: a write that throttles a key while a debounced write to the key is
\* waiting removes the debounce entry, whose timer never fires, so the older
\* value is never committed after the newer one, and the earlier caller's
\* promise settles with the outcome of the throttled flush of that write.
C22_ThrottleOverDebounce == []C22_Aborted /\ [][C22_Step]_vars

\* the newer, throttled value is in the URL, the promise of the older
\* debounced write has resolved with the params of that commit, and the older
\* value never fired
C22_Witness ==
    \E p \in AbortedWindows :
        LET k == windows[p].key
        IN  /\ promises[p].st = "resolved"
            /\ windows[p].query # url[k]
            /\ promises[p].val = url
            /\ windows[p].fires = 0
            /\ timers = {}

\* The composer with every scheduling configuration, under the runtime's
\* guarantees: time passes, and a timer that is due does not stay due for
\* ever (the event loop runs its callback, unless it is cancelled first).
\* A due timer enables DebounceExpiry or ThrottleExpiry and nothing but
\* those steps or a write removes it, so the second condition is weak fairness
\* of the two expiry steps.
NoTimerDue == \A t \in timers : t.rem > 0

LiveLimits == {NoLimit, Debounce(MaxDelay), Debounce(Infinity)}
\* field a is set or cleared
LiveStates == {<<Entry("a", v)>> : v \in {"v1", Null}}

LiveWrite ==
    \E ns \in LiveStates, lim \in LiveLimits, ok \in Outcomes :
        writes < MaxLiveWrites /\ Write(ns, CallOptions(lim), ok)

NextLive ==
    \/ LiveWrite
    \/ DebounceExpiry
    \/ ThrottleExpiry
    \/ Tick

SpecLive ==
    /\ Init /\ [][NextLive]_vars
    /\ WF_vars(Tick) /\ []<>NoTimerDue

\* Throttled and finite-delay debounced writes to one key under fair timers,
\* with abortAll called from outside at any moment.
SettleWrite ==
    \E ns \in LiveStates, lim \in KeyLimits, ok \in Outcomes :
        writes < MaxLiveWrites /\ Write(ns, CallOptions(lim), ok)

NextSettle ==
    \/ SettleWrite
    \/ DebounceExpiry
    \/ ThrottleExpiry
    \/ Tick
    \/ AbortAll

SpecSettle ==
    /\ Init /\ [][NextSettle]_vars
    /\ WF_vars(Tick) /\ []<>NoTimerDue

\* ------------------------------------------------------------------- C23
\* the state a composer shows for a key after a write of `value` to it
ExpectedState(k, value) ==
    IF value # Null THEN value
    ELSE IF keyMap[k].defaultValue # <<>> THEN keyMap[k].defaultValue[1]
    ELSE Null

\* the value written to key k by the write that ran last, after clearOnDefault
WrittenValue(k) ==
    LET i == CHOOSE i \in DOMAIN last'.newState : last'.newState[i].field = k
    IN  ClearedValue(last'.newState[i].value, last'.callOptions, keyMap[k], options)

\* C23: when a write to a key returns, both composers subscribed to the key
\* hold the same state and the same cached query for it: the written value
\* (the field's default, else null, when the write cleared it) and its query.
C23_Step ==
    last'.op = "write" =>
        \A k \in Written(last'.newState) :
            \A c \in Composers :
                /\ OutputState(hooks'[c], k) = ExpectedState(k, WrittenValue(k))
                /\ hooks'[c].queryRef[k] = QueryOf(WrittenValue(k))

C23_ComposersInSync == [][C23_Step]_vars

\* ------------------------------------------------------------------- C24
\* no timer is armed and no promise reaction is waiting
Quiesced == timers = {} /\ reactions = {}

\* the last write to key k has not been passed to updateUrl
Uncommitted(k) == written[k].query # Undefined /\ ~written[k].committed

\* the last write to key k that was handed to a queue has not been passed to
\* updateUrl
Unflushed(k) == written[k].queued # Undefined /\ ~written[k].flushed

Returned ==
    {p \in DOMAIN promises : windows[p].pushes > 0 \/ windows[p].kind = "flush"}

Unsettled == {p \in Returned : promises[p].st = "pending"}

\* C25: with timers that fire and whatever updateUrl does (return or throw),
\* every promise a write or DebounceController.push has returned settles in
\* the end, under any interleaving of debounced and throttled writes, abortAll
\* calls, timer expiries and flush completions; a write returns one of these
\* promises, and a settled promise stays as it is.
C25_Settles ==
    /\ (Unsettled # {}) ~> (Unsettled = {})
    /\ [](last.op = "write" => last.ret \in Returned)
    /\ [][\A p \in DOMAIN promises :
            promises[p].st # "pending" => promises'[p] = promises[p]]_vars

\* a write's flush promise has been settled by a timer, abortAll has dropped a
\* debounced write and resolved its promise, and nothing is pending any more
C25_Witness ==
    /\ Unsettled = {}
    /\ Quiesced
    /\ \E k \in Keys : Unflushed(k)
    /\ \E p \in Returned : windows[p].kind = "debounce" /\ windows[p].fires = 0
                           /\ promises[p] = ResolvedWith(EmptyParams)
    /\ \E p \in Returned : windows[p].kind = "flush" /\ windows[p].updateUrls = 1

\* ------------------------------------------------------------------- C26
\* getQueuedQuery(k) as the next state answers it
GetQueuedQueryNext(k) ==
    GetQueuedQuery([queues |-> queues', objs |-> objs', tq |-> tq'], k)

\* while the query queued last for a key has not been passed to updateUrl,
\* getQueuedQuery returns it: never undefined, never an older query
C26_Queued ==
    \A k \in Keys :
        Unflushed(k) => GetQueuedQuery(Heap, k) = written[k].queued

\* a debounce timer that fires without a commit in the same callback leaves
\* the entry without a queued value and the query in the throttled queue,
\* and getQueuedQuery answers the same query before and after, as does the
\* snapshot the composers read
C26_Expiry ==
    (last'.op = "debounceTick" /\ Commits(last'.trace) = <<>>) =>
        LET t == last'.timer
            k == t.cb.value.key
            q == t.cb.value.query
        IN  /\ GetQueuedQuery(Heap, k) = q
            /\ objs'[t.cb.obj].queuedValue = NoUpdate
            /\ tq'.updateMap[k] = q
            /\ GetQueuedQueryNext(k) = q
            /\ signal[k] = q /\ signal'[k] = q

\* C26: from a finite-delay debounced push of query q for a key until q is
\* passed to updateUrl or a newer write supersedes it, getQueuedQuery(key)
\* returns q; between the debounce timer firing and the throttled commit it
\* returns q from the throttled queue.
C26_NoGap == []C26_Queued /\ [][C26_Expiry]_vars

\* the timer of a debounced write has fired, the commit is still to come,
\* and the query is read from the throttled queue
C26_Witness ==
    /\ last.op = "debounceTick"
    /\ Commits(last.trace) = <<>>
    /\ LET k == last.timer.cb.value.key
       IN  /\ Unflushed(k)
           /\ written[k].queued # url[k]
           /\ queues[k] # 0 /\ objs[queues[k]].queuedValue = NoUpdate
           /\ tq.updateMap[k] = written[k].queued
           /\ GetQueuedQuery(Heap, k) = written[k].queued

\* ------------------------------------------------------------------- C27
\* the entries that have left the controller
Removed == {o \in DOMAIN objs : \A k \in Keys : queues[k] # o}

C28_Push ==
    Len(debounced'.returned) = Len(debounced.returned) + 1 =>
        LET p == debounced'.returned[Len(debounced'.returned)]
        IN  /\ debounced.timer # Undefined =>
                  p = debounced.returned[Len(debounced.returned)]
            /\ p \notin debounced.fired
            /\ debounced'.promises[p] = "pending"

C28_FreshPromise == [][C28_Push]_vars

====
